---- MODULE Spec2Model ----
(***************************************************************************)
(* The search-and-fetch engine of met-viewer (src/src/hooks/useMetSearch.ts) *)
(* as a state machine.                                                      *)
(*                                                                          *)
(* Granularity.  JavaScript runs every handler to completion: a macrotask   *)
(* (a user call, a network event, a timer) runs, then every promise         *)
(* reaction it queued (the microtasks) runs before the next macrotask.      *)
(* The model has one action per macrotask and one per promise reaction;     *)
(* while a reaction is pending (MicrotaskPending) no macrotask is enabled.  *)
(*                                                                          *)
(* Time.  The clock is not stored.  Every instant the code keeps            *)
(* (lastStart, the due time of a setTimeout) is stored relative to          *)
(* Date.now(), and Tick(d) moves them all by d milliseconds.                *)
(***************************************************************************)
EXTENDS Integers, Sequences, FiniteSets, TLC

(* ------------------------- program constants -------------------------- *)
PAGE_SIZE == 50
MAX_CONCURRENT == 4
MIN_DELAY_MS == 60

(* ------------------------------ bounds -------------------------------- *)
\* search() and reset() calls made in one behaviour (the largest token)
MaxToken == 2
\* object identifiers 1..MaxId
MaxId == 3
\* the standalone run of the task runner: items, limit and delay
MaxItems == 3
MaxLimit == 2
MaxDelay == 2
\* detail fetches of selectItem in flight at once
MaxDetails == 1
\* invocations of the save-image handler, and chunks of the image it downloads
MaxSaves == 2
MaxChunks == 2
\* the longest title handed to buildDefaultFilename
MaxTitle == 4

VARIABLES
  searchIdRef,      \* searchIdRef.current
  abortRef,         \* abortRef.current: the session whose controller it holds, 0 for null
  aborted,          \* aborted[s]: controller.signal.aborted of session s
  cacheRef,         \* cacheRef.current: objectID -> item, NoItem when absent
  submittedQuery, isSearching, error, results,
  selected, selectedDetails, detailsLoading,
  detailFetch,      \* the items whose selectItem fetch is in flight, in call order
  sess,             \* sess[s]: the locals of the search() call with searchId = s
  runner,           \* runner[r]: the locals of one runWithConcurrency call
  save,             \* the locals of the save-image handler of the main process
  filename,         \* the last call of buildDefaultFilename: its object and result
  viewport,         \* the state of the revision that fetches tiles as they come into view
  incremental       \* the state of the revision that shows each item as it resolves

vars == <<searchIdRef, abortRef, aborted, cacheRef, submittedQuery, isSearching,
          error, results, selected, selectedDetails, detailsLoading, detailFetch,
          sess, runner, save, filename, viewport, incremental>>

bridgeVars == <<save, filename>>

\* The state of the other revisions of the application.
variantVars == <<viewport, incremental>>

\* Everything but the state of the other revisions.
hostVars == <<searchIdRef, abortRef, aborted, cacheRef, submittedQuery, isSearching,
              error, results, selected, selectedDetails, detailsLoading, detailFetch,
              sess, runner, save, filename>>

uiVars == <<submittedQuery, isSearching, error, results,
            selected, selectedDetails, detailsLoading>>

hookVars == <<searchIdRef, abortRef, aborted, cacheRef, detailFetch, sess>>

Max(a, b) == IF a >= b THEN a ELSE b

Sessions == 1..MaxToken
\* runner[s] is the run awaited by session s; runner[Standalone] is a run of the
\* task runner on its own, with any limit and delay.
Standalone == MaxToken + 1
RunnerIds == Sessions \cup {Standalone}
ObjectIds == 1..MaxId

(* ------------------------------ values -------------------------------- *)
\* What cacheRef.current.get(id) returns for a missing key (undefined).
NoItem == [objectID |-> 0, primaryImageSmall |-> "", primaryImage |-> ""]

\* The catalog's record of an object: fixed for the life of the process.  Of
\* three objects one has only the small image, one only the full image, one none.
Catalog(id) ==
  [objectID |-> id,
   primaryImageSmall |-> IF id % 3 = 1 THEN "small.jpg" ELSE "",
   primaryImage |-> IF id % 3 = 2 THEN "full.jpg" ELSE ""]

AbortError == [name |-> "AbortError", message |-> "The user aborted a request."]
NetworkError == [name |-> "TypeError", message |-> "Failed to fetch"]
SearchRequestFailed == [name |-> "Error", message |-> "Search request failed"]
FailedToLoadObject(id) == [name |-> "Error", message |-> "Failed to load object", objectID |-> id]
WorkerError(item) == [name |-> "Error", message |-> "worker failed", item |-> item]

\* The state of a promise.
Pending == [status |-> "pending"]
Fulfilled(v) == [status |-> "fulfilled", value |-> v]
Rejected(e) == [status |-> "rejected", reason |-> e]
IsSettled(p) == p.status \in {"fulfilled", "rejected"}

\* A slot of `new Array(items.length)` that was never written.
Hole == [hole |-> TRUE]
IsHole(r) == "hole" \in DOMAIN r

\* The save-image handler before its first invocation, and no call of
\* buildDefaultFilename made.
NoResponse == [pending |-> TRUE]
NoSave ==
  [pc |-> "idle", calls |-> 0, url |-> [valid |-> FALSE], defaultPath |-> <<>>,
   filePath |-> "", dl |-> "none", chunks |-> <<>>, buffer |-> <<>>,
   file |-> <<>>, written |-> FALSE, response |-> NoResponse]
NoFilename == [called |-> FALSE, object |-> [title |-> <<>>, objectID |-> 0], name |-> <<>>]

\* MAX_CONCURRENT and PAGE_SIZE of the revision that fetches a tile when it
\* scrolls into view.
VIEWPORT_MAX_CONCURRENT == 3
VIEWPORT_PAGE_SIZE == 100

\* That revision's refs and state before the first search: searchIdRef, abortRef
\* (the token whose controller it holds, 0 for null), the controllers whose
\* signal has fired, the search request in flight, the state the tiles are drawn
\* from, cacheRef, queueRef, pendingRef, activeRef and the timers and fetches that
\* processQueue has set off.
NoViewport ==
  [searchIdRef |-> 0, abortRef |-> 0, aborted |-> {}, request |-> "none",
   submittedQuery |-> <<>>, isSearching |-> FALSE, error |-> "",
   objectIDs |-> <<>>, loadedById |-> [id \in ObjectIds |-> NoItem],
   cacheRef |-> [id \in ObjectIds |-> NoItem],
   queueRef |-> <<>>, pendingRef |-> {}, activeRef |-> 0, tasks |-> <<>>]

\* MAX_CONCURRENT and PAGE_SIZE of the revision that shows each item as soon as
\* it resolves.
INCREMENTAL_MAX_CONCURRENT == 6
INCREMENTAL_PAGE_SIZE == 100

\* One identifier of a runWithConcurrency call of that revision.  phase:
\* "unlaunched", "timer" (its setTimeout is set), "fetch" (the handler awaits
\* fetchObject), "settled" (the handler returned value, NoItem for null; then and
\* finally are queued), "finished".
NewPageTask == [phase |-> "unlaunched", value |-> NoItem]

\* The locals of a runWithConcurrency call that was not made (yet), with the
\* signal loadNextPage hands the handler; done lists the identifiers whose
\* handler returned a value that is not null, in the order of the returns.
NoPage ==
  [items |-> <<>>, signal |-> 0, currentIndex |-> 0, active |-> 0, task |-> <<>>,
   results |-> <<>>, done |-> <<>>]

\* That revision's refs and state before the first search; page[s] is the
\* runWithConcurrency call of the search with token s.
NoIncremental ==
  [searchIdRef |-> 0, abortRef |-> 0, aborted |-> {}, request |-> "none",
   submittedQuery |-> <<>>, isSearching |-> FALSE, error |-> "",
   objectIDs |-> <<>>, items |-> <<>>,
   cacheRef |-> [id \in ObjectIds |-> NoItem],
   page |-> [s \in 1..(MaxToken + 1) |-> NoPage]]

(* --------------------------- preloadImage ------------------------------ *)
\* The promise preloadImage(url) returns, right after the call: resolved when
\* there is no url, otherwise pending until onload or onerror.
preloadImage(url) == IF url = "" THEN Fulfilled("void") ELSE Pending

\* item.primaryImageSmall || item.primaryImage
PreloadUrl(item) ==
  IF item.primaryImageSmall # "" THEN item.primaryImageSmall ELSE item.primaryImage

(* ------------------------- runWithConcurrency -------------------------- *)
\* One item of a run.  phase: "unlaunched" (index has not reached it), "timer"
\* (startTask awaits its setTimeout, due in rem ms), "worker" (the worker's promise
\* is pending), "settled" (it settled; then/catch/finally are queued), "finished"
\* (finally has run).  promise is the worker's promise; gap is lastStart after this
\* item's startTask minus lastStart before it.
NewTask == [phase |-> "unlaunched", rem |-> 0, promise |-> Pending, gap |-> 0]

\* The locals of a call that was not made (yet).
NoRun ==
  [kind |-> "none", items |-> <<>>, limit |-> 0, delayMs |-> 0, index |-> 0,
   active |-> 0, lastStart |-> 0, results |-> <<>>, task |-> <<>>,
   resolved |-> 0, calls |-> 0]

\* The worker's promise right after worker(items[current]) was called, for each of
\* the three workers a run is given: the per-object fetch of search (cache first,
\* then fetchObject under the session's signal), the image preload, and an
\* arbitrary asynchronous task.
CallWorkerBuggy(r, kind, item) ==
  CASE kind = "fetch" -> IF aborted[r] THEN Rejected(AbortError) ELSE Pending
    [] kind = "preload" -> preloadImage(PreloadUrl(item))
    [] OTHER -> Pending
CallWorker(r, kind, item) ==
  CASE kind = "fetch" ->
         IF cacheRef[item] # NoItem THEN Fulfilled(cacheRef[item])
         ELSE IF aborted[r] THEN Rejected(AbortError)
         ELSE Pending
    [] kind = "preload" -> preloadImage(PreloadUrl(item))
    [] OTHER -> Pending

\* Whether calling the worker issues a network request (fetchObject).
CallFetches(r, kind, item) == kind = "fetch" /\ cacheRef[item] = NoItem

\* A task whose worker was just called.
Called(r, kind, item, t) ==
  LET p == CallWorker(r, kind, item)
  IN [t EXCEPT !.phase = IF IsSettled(p) THEN "settled" ELSE "worker",
               !.rem = 0, !.promise = p]

\* const wait = Math.max(0, delayMs - (now - lastStart)), with lastStart kept as
\* lastStart - now.
Wait(rn) == Max(0, rn.delayMs + rn.lastStart)

\* lastStart = now + wait, kept relative to now.
NextLastStartBuggy(rn) == 0
NextLastStart(rn) == Wait(rn)

\* startTask() up to its first await: the timer, or the worker's own promise.
StartTask(r, rn, current) ==
  LET wait == Wait(rn)
      next == NextLastStart(rn)
      t == [rn.task[current] EXCEPT !.gap = next - rn.lastStart]
  IN [rn EXCEPT !.lastStart = next,
                !.calls = IF wait = 0 /\ CallFetches(r, rn.kind, rn.items[current])
                          THEN @ + 1 ELSE @,
                !.task[current] =
                   IF wait > 0 THEN [t EXCEPT !.phase = "timer", !.rem = wait]
                   ELSE Called(r, rn.kind, rn.items[current], t)]

\* The condition of launch's while loop.
CanLaunchBuggy(rn) == rn.active <= rn.limit /\ rn.index < Len(rn.items)
CanLaunch(rn) == rn.active < rn.limit /\ rn.index < Len(rn.items)

RECURSIVE LaunchLoop(_, _)
LaunchLoop(r, rn) ==
  IF CanLaunch(rn)
  THEN LaunchLoop(r, StartTask(r, [rn EXCEPT !.index = @ + 1, !.active = @ + 1],
                               rn.index + 1))
  ELSE rn

\* if (index >= items.length && active === 0) resolve(results)
LaunchDoneIdle(rn) == rn.active = 0
LaunchDoneEarly(rn) == rn.index >= Len(rn.items)
LaunchDoneBuggy(rn) == rn.index >= Len(rn.items) + 1 /\ rn.active = 0
LaunchDone(rn) == rn.index >= Len(rn.items) /\ rn.active = 0

launch(r, rn) ==
  IF LaunchDone(rn) THEN [rn EXCEPT !.resolved = @ + 1] ELSE LaunchLoop(r, rn)

\* runWithConcurrency(items, limit, delayMs, worker) up to the promise it returns.
runWithConcurrency(r, kind, items, limit, delayMs) ==
  launch(r, [NoRun EXCEPT !.kind = kind, !.items = items, !.limit = limit,
                          !.delayMs = delayMs, !.lastStart = 0 - delayMs,
                          !.results = [i \in 1..Len(items) |-> Hole],
                          !.task = [i \in 1..Len(items) |-> NewTask]])

\* .then((result) => { results[current] = { ok: true, value: result } })
OnFulfilledBuggy(res, current, value) ==
  LET free == CHOOSE i \in DOMAIN res :
                IsHole(res[i]) /\ \A j \in 1..(i - 1) : ~IsHole(res[j])
  IN [res EXCEPT ![free] = [ok |-> TRUE, value |-> value]]
OnFulfilled(res, current, value) ==
  [res EXCEPT ![current] = [ok |-> TRUE, value |-> value]]

\* .catch((error) => { results[current] = { ok: false, error } })
OnRejectedBuggy(res, current, reason) == res
OnRejected(res, current, reason) ==
  [res EXCEPT ![current] = [ok |-> FALSE, error |-> reason]]

SettledTasks(rn) == {i \in DOMAIN rn.task : rn.task[i].phase = "settled"}
TimerTasks(rn) == {i \in DOMAIN rn.task : rn.task[i].phase = "timer"}
WorkerTasks(rn) == {i \in DOMAIN rn.task : rn.task[i].phase = "worker"}
Lowest(S) == CHOOSE i \in S : \A j \in S : i <= j

\* The promise of a run has resolved and the caller's continuation is queued.
RunResolved(r) == runner[r].kind # "none" /\ runner[r].resolved > 0

\* A session's continuation (the code after an await of search) is queued.
ContinuationReady(s) ==
  \/ sess[s].pc = "awaitSearch" /\ IsSettled(sess[s].fetch)
  \/ sess[s].pc \in {"awaitFetch", "awaitPreload"} /\ RunResolved(s)

\* A promise reaction is queued: it runs before any macrotask.
MicrotaskPending ==
  \/ \E r \in RunnerIds : SettledTasks(runner[r]) # {}
  \/ \E s \in Sessions : ContinuationReady(s)

\* The reactions of one settled task: then or catch, then finally (active -= 1;
\* launch()).  Reactions run in the order the promises settled, which within a run
\* is the order of the items.
TaskSettled(r) ==
  /\ SettledTasks(runner[r]) # {}
  /\ LET rn == runner[r]
         current == Lowest(SettledTasks(rn))
         p == rn.task[current].promise
         res == IF p.status = "fulfilled"
                THEN OnFulfilled(rn.results, current, p.value)
                ELSE OnRejected(rn.results, current, p.reason)
     IN runner' = [runner EXCEPT ![r] =
          launch(r, [rn EXCEPT !.results = res, !.active = @ - 1,
                               !.task[current].phase = "finished"])]
  /\ UNCHANGED <<hookVars, uiVars, bridgeVars, variantVars>>

\* The setTimeout of startTask fires and the worker is called.  Timers of one run
\* are due D apart in the order of the items, and fire in that order.
TimerFires(r) ==
  /\ TimerTasks(runner[r]) # {}
  /\ ~MicrotaskPending
  /\ LET rn == runner[r]
         current == Lowest(TimerTasks(rn))
     IN /\ rn.task[current].rem = 0
        /\ runner' = [runner EXCEPT ![r] =
             [rn EXCEPT !.task[current] =
                          Called(r, rn.kind, rn.items[current], rn.task[current]),
                        !.calls = IF CallFetches(r, rn.kind, rn.items[current])
                                  THEN @ + 1 ELSE @]]
  /\ UNCHANGED <<hookVars, uiVars, bridgeVars, variantVars>>

\* d milliseconds pass.  An instant more than delayMs in the past is kept as
\* delayMs in the past: wait is 0 from there on.  Once every item of a run is
\* launched its lastStart is read no more, and is left as it is.
Elapse(rn, d) ==
  [rn EXCEPT
     !.lastStart = IF rn.index < Len(rn.items) THEN Max(0 - rn.delayMs, @ - d) ELSE @,
     !.task = [i \in DOMAIN @ |-> [@[i] EXCEPT !.rem = Max(0, @ - d)]]]

Tick(d) ==
  /\ runner' = [r \in RunnerIds |-> Elapse(runner[r], d)]
  /\ runner' # runner
  /\ ~MicrotaskPending
  /\ UNCHANGED <<hookVars, uiVars, bridgeVars, variantVars>>

\* The worker of an arbitrary run fulfils or rejects its promise.
WorkerSucceeds(r, i) ==
  /\ runner[r].kind = "task"
  /\ i \in WorkerTasks(runner[r])
  /\ ~MicrotaskPending
  /\ runner' = [runner EXCEPT ![r].task[i] =
       [@ EXCEPT !.phase = "settled", !.promise = Fulfilled(runner[r].items[i])]]
  /\ UNCHANGED <<hookVars, uiVars, bridgeVars, variantVars>>

WorkerFails(r, i) ==
  /\ runner[r].kind = "task"
  /\ i \in WorkerTasks(runner[r])
  /\ ~MicrotaskPending
  /\ runner' = [runner EXCEPT ![r].task[i] =
       [@ EXCEPT !.phase = "settled",
                 !.promise = Rejected(WorkerError(runner[r].items[i]))]]
  /\ UNCHANGED <<hookVars, uiVars, bridgeVars, variantVars>>

\* A call of runWithConcurrency on n items with limit C and delay D.
RunStarts(n, C, D) ==
  /\ runner[Standalone].kind = "none"
  /\ runner' = [runner EXCEPT ![Standalone] =
       runWithConcurrency(Standalone, "task", [i \in 1..n |-> i], C, D)]
  /\ UNCHANGED <<hookVars, uiVars, bridgeVars, variantVars>>

(* ------------------------------ sessions ------------------------------ *)
\* The locals of a search() call.  pc is the await it is suspended at
\* ("awaitSearch", "awaitFetch", "awaitPreload") or the way it returned:
\* "resultsReady" (setResults), "allFailed", "failed" (the catch set an error),
\* "aborted" (the catch saw an AbortError), "superseded" (a token guard returned).
\* fetch is the promise of the search request, fetchCalls the fetchObject calls its
\* workers made.
NoSession ==
  [pc |-> "idle", fetch |-> [status |-> "none"], ids |-> <<>>,
   objectResults |-> <<>>, failures |-> 0, withImages |-> <<>>, fetchCalls |-> 0]

Terminal == {"resultsReady", "allFailed", "failed", "aborted", "superseded"}

Init ==
  /\ searchIdRef = 0
  /\ abortRef = 0
  /\ aborted = [s \in Sessions |-> FALSE]
  /\ cacheRef = [id \in ObjectIds |-> NoItem]
  /\ submittedQuery = <<>>
  /\ isSearching = FALSE
  /\ error = ""
  /\ results = <<>>
  /\ selected = NoItem
  /\ selectedDetails = NoItem
  /\ detailsLoading = FALSE
  /\ detailFetch = <<>>
  /\ sess = [s \in Sessions |-> NoSession]
  /\ runner = [r \in RunnerIds |-> NoRun]
  /\ save = NoSave
  /\ viewport = NoViewport
  /\ incremental = NoIncremental
  /\ filename = NoFilename

\* term.trim(), a term being a sequence of characters.
RECURSIVE TrimStart(_)
TrimStart(q) == IF q # <<>> /\ Head(q) = " " THEN TrimStart(Tail(q)) ELSE q
RECURSIVE TrimEnd(_)
TrimEnd(q) ==
  IF q # <<>> /\ q[Len(q)] = " " THEN TrimEnd(SubSeq(q, 1, Len(q) - 1)) ELSE q
TrimBuggy(q) == q
Trim(q) == TrimEnd(TrimStart(q))

\* The terms a user submits.
Terms == {<<>>, <<" ">>, <<"c", "a", "t">>, <<" ", "c", "a", "t", " ">>}

\* The bodies the search endpoint answers with: objectIDs absent, empty, the
\* list <<1, 2, 3>>, or the two highest identifiers in descending order.
IdLists == {<<>>, <<1, 2, 3>>, <<MaxId, MaxId - 1>>}
Responses ==
  {[total |-> 0]} \cup {[total |-> Len(q), objectIDs |-> q] : q \in IdLists}

\* A call that has returned: its locals are dead, only the way it returned is kept.
Returned(s, how) == [NoSession EXCEPT !.pc = how]

\* The locals of the calls that returned are dropped when the next call is made.
CollectSess(ss) ==
  [s \in Sessions |-> IF ss[s].pc \in Terminal THEN Returned(s, ss[s].pc) ELSE ss[s]]
CollectRunner(rr) ==
  [r \in RunnerIds |->
     IF r \in Sessions /\ sess[r].pc \in Terminal THEN NoRun ELSE rr[r]]

\* controller.abort() on the controller of session c (0: abortRef.current is null):
\* every pending fetch under its signal rejects with an AbortError.
AbortSess(c) ==
  IF c = 0 \/ aborted[c] THEN sess
  ELSE [sess EXCEPT ![c].fetch =
          IF @.status = "pending" THEN Rejected(AbortError) ELSE @]

AbortRunner(c) ==
  IF c = 0 \/ aborted[c] \/ runner[c].kind # "fetch" THEN runner
  ELSE [runner EXCEPT ![c].task =
          [i \in DOMAIN @ |->
             IF @[i].phase = "worker"
             THEN [@[i] EXCEPT !.phase = "settled", !.promise = Rejected(AbortError)]
             ELSE @[i]]]

AbortSignalBuggy(c) == aborted
AbortSignal(c) == IF c = 0 THEN aborted ELSE [aborted EXCEPT ![c] = TRUE]

\* The detail fetches in flight once controller c has aborted: selectItem calls
\* fetchObject(item.objectID) without a signal, so none of them is linked to c.
AbortDetailsBuggy(c) == IF c = 0 THEN detailFetch ELSE <<>>
AbortDetails(c) == detailFetch

\* searchIdRef.current += 1 in reset
ResetSearchIdBuggy == searchIdRef
ResetSearchId == searchIdRef + 1

reset ==
  /\ searchIdRef' = ResetSearchId
  /\ aborted' = AbortSignal(abortRef)
  /\ sess' = CollectSess(AbortSess(abortRef))
  /\ runner' = CollectRunner(AbortRunner(abortRef))
  /\ submittedQuery' = <<>>
  /\ results' = <<>>
  /\ isSearching' = FALSE
  /\ error' = ""
  /\ selected' = NoItem
  /\ selectedDetails' = NoItem
  /\ detailFetch' = AbortDetails(abortRef)
  /\ UNCHANGED <<abortRef, cacheRef, detailsLoading, bridgeVars, variantVars>>

Reset ==
  /\ searchIdRef < MaxToken
  /\ ~MicrotaskPending
  /\ reset

\* search(term) up to its first await.
Search(term) ==
  /\ searchIdRef < MaxToken
  /\ ~MicrotaskPending
  /\ LET trimmed == Trim(term)
         searchId == searchIdRef + 1
     IN IF trimmed = <<>> THEN reset
        ELSE /\ searchIdRef' = searchId
             /\ aborted' = [AbortSignal(abortRef) EXCEPT ![searchId] = FALSE]
             /\ abortRef' = searchId
             /\ error' = ""
             /\ isSearching' = TRUE
             /\ submittedQuery' = trimmed
             /\ results' = <<>>
             /\ selected' = NoItem
             /\ selectedDetails' = NoItem
             /\ sess' = [CollectSess(AbortSess(abortRef)) EXCEPT ![searchId] =
                           [NoSession EXCEPT !.pc = "awaitSearch", !.fetch = Pending]]
             /\ runner' = CollectRunner(AbortRunner(abortRef))
             /\ detailFetch' = AbortDetails(abortRef)
             /\ UNCHANGED <<cacheRef, detailsLoading, bridgeVars, variantVars>>

\* The first search() call of the process.
FirstSearch(term) == searchIdRef = 0 /\ Search(term)

\* The search request of session s ends: a body, a status that is not ok, or no
\* response at all.
SearchSettles(s, p) ==
  /\ sess[s].pc = "awaitSearch"
  /\ sess[s].fetch.status = "pending"
  /\ ~MicrotaskPending
  /\ sess' = [sess EXCEPT ![s].fetch = p]
  /\ UNCHANGED <<searchIdRef, abortRef, aborted, cacheRef, detailFetch, runner, uiVars, bridgeVars, variantVars>>

SearchResponds(s, data) == SearchSettles(s, Fulfilled(data))
SearchStatusNotOk(s) == SearchSettles(s, Rejected(SearchRequestFailed))
SearchNetworkFails(s) == SearchSettles(s, Rejected(NetworkError))

\* (data.objectIDs ?? []).slice(0, PAGE_SIZE)
ObjectIDs(data) == IF "objectIDs" \in DOMAIN data THEN data.objectIDs ELSE <<>>
SliceBuggy(q, n) == q
Slice(q, n) == SubSeq(q, 1, IF Len(q) < n THEN Len(q) ELSE n)

\* The three guards `if (searchIdRef.current !== searchId) return`.
SupersededAfterIds(s) == searchIdRef # s
SupersededAfterFetchBuggy(s) == FALSE
SupersededAfterFetch(s) == searchIdRef # s
SupersededAfterPreloadBuggy(s) == FALSE
SupersededAfterPreload(s) == searchIdRef # s

\* finally { if (searchIdRef.current === searchId) setIsSearching(false) }
FinallyBuggy(s) == FALSE
Finally(s) == IF searchIdRef = s THEN FALSE ELSE isSearching

\* err instanceof DOMException && err.name === 'AbortError'
IsAbortError(err) == err.name = "AbortError"
\* err instanceof Error ? err.message : 'Search failed'
ErrorMessageBuggy(err) == ""
ErrorMessage(err) == IF "message" \in DOMAIN err THEN err.message ELSE "Search failed"

AllFailedMessage == "All artwork requests failed. Please try again."

\* objectResults.filter((result) => result && !result.ok).length
Failures(objectResults) ==
  Cardinality({i \in DOMAIN objectResults :
                 ~IsHole(objectResults[i]) /\ ~objectResults[i].ok})

\* objectResults.flatMap((result) => result && result.ok ? [result.value] : [])
RECURSIVE Objects(_)
Objects(objectResults) ==
  IF objectResults = <<>> THEN <<>>
  ELSE LET result == Head(objectResults)
       IN (IF ~IsHole(result) /\ result.ok THEN <<result.value>> ELSE <<>>)
            \o Objects(Tail(objectResults))

\* item && (item.primaryImageSmall || item.primaryImage)
HasImageBuggy(item) == item # NoItem
HasImage(item) == item # NoItem /\ (item.primaryImageSmall # "" \/ item.primaryImage # "")
WithImages(objects) == SelectSeq(objects, HasImage)

\* if (!withImages.length && failures > 0)
NothingToShowAnyFailure(withImages, failures) == failures > 0
NothingToShowNegated(withImages, failures) == Len(withImages) # 0 /\ failures > 0
NothingToShow(withImages, failures) == Len(withImages) = 0 /\ failures > 0

\* The continuation of search after the search request: lines 166-175, or the
\* catch and the finally.
SearchContinues(s) ==
  /\ sess[s].pc = "awaitSearch"
  /\ IsSettled(sess[s].fetch)
  /\ LET p == sess[s].fetch
     IN IF p.status = "rejected"
        THEN /\ error' = IF IsAbortError(p.reason) THEN error ELSE ErrorMessage(p.reason)
             /\ sess' = [sess EXCEPT ![s] =
                           IF IsAbortError(p.reason) THEN Returned(s, "aborted")
                           ELSE [@ EXCEPT !.pc = "failed"]]
             /\ isSearching' = Finally(s)
             /\ UNCHANGED runner
        ELSE LET ids == Slice(ObjectIDs(p.value), PAGE_SIZE)
             IN IF SupersededAfterIds(s)
                THEN /\ sess' = [sess EXCEPT ![s] = Returned(s, "superseded")]
                     /\ isSearching' = Finally(s)
                     /\ UNCHANGED <<runner, error>>
                ELSE /\ sess' = [sess EXCEPT ![s].pc = "awaitFetch", ![s].ids = ids]
                     /\ runner' = [runner EXCEPT ![s] =
                          runWithConcurrency(s, "fetch", ids, MAX_CONCURRENT, MIN_DELAY_MS)]
                     /\ UNCHANGED <<isSearching, error>>
  /\ UNCHANGED <<searchIdRef, abortRef, aborted, cacheRef, submittedQuery, results,
                 selected, selectedDetails, detailsLoading, detailFetch, bridgeVars, variantVars>>

\* The continuation after the fetch batch: lines 190-214, or the finally.
FetchBatchContinues(s) ==
  /\ sess[s].pc = "awaitFetch"
  /\ RunResolved(s)
  /\ LET objectResults == runner[s].results
         failures == Failures(objectResults)
         withImages == WithImages(Objects(objectResults))
         mine == [sess[s] EXCEPT !.objectResults = objectResults,
                                 !.fetchCalls = runner[s].calls]
     IN IF SupersededAfterFetch(s)
        THEN /\ sess' = [sess EXCEPT ![s] = Returned(s, "superseded")]
             /\ runner' = [runner EXCEPT ![s] = NoRun]
             /\ isSearching' = Finally(s)
             /\ UNCHANGED error
        ELSE IF NothingToShow(withImages, failures)
        THEN /\ error' = AllFailedMessage
             /\ sess' = [sess EXCEPT ![s] =
                  [mine EXCEPT !.pc = "allFailed", !.failures = failures,
                               !.withImages = withImages]]
             /\ isSearching' = Finally(s)
             /\ UNCHANGED runner
        ELSE /\ sess' = [sess EXCEPT ![s] =
                  [mine EXCEPT !.pc = "awaitPreload", !.failures = failures,
                               !.withImages = withImages]]
             /\ runner' = [runner EXCEPT ![s] =
                  runWithConcurrency(s, "preload", withImages, MAX_CONCURRENT,
                                     MIN_DELAY_MS)]
             /\ UNCHANGED <<isSearching, error>>
  /\ UNCHANGED <<searchIdRef, abortRef, aborted, cacheRef, submittedQuery, results,
                 selected, selectedDetails, detailsLoading, detailFetch, bridgeVars, variantVars>>

\* The continuation after the preload batch: lines 216-220 and the finally.
PreloadContinues(s) ==
  /\ sess[s].pc = "awaitPreload"
  /\ RunResolved(s)
  /\ IF SupersededAfterPreload(s)
     THEN /\ sess' = [sess EXCEPT ![s] = Returned(s, "superseded")]
          /\ runner' = [runner EXCEPT ![s] = NoRun]
          /\ UNCHANGED results
     ELSE /\ sess' = [sess EXCEPT ![s].pc = "resultsReady"]
          /\ results' = sess[s].withImages
          /\ UNCHANGED runner
  /\ isSearching' = Finally(s)
  /\ UNCHANGED <<searchIdRef, abortRef, aborted, cacheRef, submittedQuery,
                 error, selected, selectedDetails, detailsLoading, detailFetch, bridgeVars, variantVars>>

\* fetchObject of item i of session s returns the object: the worker stores it in
\* the cache and returns it.
ObjectLoads(s, i) ==
  /\ runner[s].kind = "fetch"
  /\ i \in WorkerTasks(runner[s])
  /\ ~MicrotaskPending
  /\ LET id == runner[s].items[i]
         item == Catalog(id)
     IN /\ cacheRef' = [cacheRef EXCEPT ![id] = item]
        /\ runner' = [runner EXCEPT ![s].task[i] =
             [@ EXCEPT !.phase = "settled", !.promise = Fulfilled(item)]]
  /\ UNCHANGED <<searchIdRef, abortRef, aborted, detailFetch, sess, uiVars, bridgeVars, variantVars>>

\* fetchObject of item i of session s throws: the request fails, or the response
\* is not ok.
ObjectFails(s, i) ==
  /\ runner[s].kind = "fetch"
  /\ i \in WorkerTasks(runner[s])
  /\ ~MicrotaskPending
  /\ runner' = [runner EXCEPT ![s].task[i] =
       [@ EXCEPT !.phase = "settled",
                 !.promise = Rejected(FailedToLoadObject(runner[s].items[i]))]]
  /\ UNCHANGED <<hookVars, uiVars, bridgeVars, variantVars>>

\* image.onload = () => resolve()
OnLoad == Fulfilled("void")
\* image.onerror = () => resolve()
OnErrorBuggy == Rejected([name |-> "Event", message |-> "error"])
OnError == Fulfilled("void")

\* The image of the preload of item i loads or fails: the promise of preloadImage
\* becomes p.
ImageEnds(s, i, p) ==
  /\ runner[s].kind = "preload"
  /\ i \in WorkerTasks(runner[s])
  /\ ~MicrotaskPending
  /\ runner' = [runner EXCEPT ![s].task[i] =
       [@ EXCEPT !.phase = "settled", !.promise = p]]
  /\ UNCHANGED <<hookVars, uiVars, bridgeVars, variantVars>>

\* image.onload or image.onerror of the preload of item i: both call resolve().
ImageSettles(s, i) == \E p \in {OnLoad, OnError} : ImageEnds(s, i, p)
ImageLoads(s, i) == ImageEnds(s, i, OnLoad)
ImageErrors(s, i) == ImageEnds(s, i, OnError)

Next ==
  \/ \E term \in Terms : Search(term)
  \/ Reset
  \/ \E s \in Sessions, data \in Responses : SearchResponds(s, data)
  \/ \E s \in Sessions : SearchStatusNotOk(s)
  \/ \E s \in Sessions : SearchNetworkFails(s)
  \/ \E s \in Sessions : SearchContinues(s)
  \/ \E s \in Sessions : FetchBatchContinues(s)
  \/ \E s \in Sessions : PreloadContinues(s)
  \/ \E s \in Sessions, i \in ObjectIds : ObjectLoads(s, i)
  \/ \E s \in Sessions, i \in ObjectIds : ObjectFails(s, i)
  \/ \E s \in Sessions, i \in ObjectIds : ImageSettles(s, i)
  \/ \E s \in Sessions : TimerFires(s)
  \/ \E s \in Sessions : TaskSettled(s)
  \/ Tick(MIN_DELAY_MS)

Spec == Init /\ [][Next]_vars

(* --------------------------- detail selection -------------------------- *)
\* An item as a caller may hand it to selectItem: the catalog's record, or a
\* summary of it that lacks the full image.
Summary(id) == [Catalog(id) EXCEPT !.primaryImage = ""]
SelectableItems(ids) == {Catalog(id) : id \in ids} \cup {Summary(id) : id \in ids}

\* seq without its k-th element
RemoveAt(seq, k) == SubSeq(seq, 1, k - 1) \o SubSeq(seq, k + 1, Len(seq))

\* cacheRef.current.set(item.objectID, details) in selectItem
DetailStoredBuggy(cache, item, details) == [cache EXCEPT ![item.objectID] = item]
DetailStored(cache, item, details) == [cache EXCEPT ![item.objectID] = details]

\* .catch(() => setSelectedDetails(item))
DetailFallbackBuggy(item) == NoItem
DetailFallback(item) == item

\* if (cached) in selectItem
IsCachedBuggy(cached) == FALSE
IsCached(cached) == cached # NoItem

\* selectItem(item): a cache hit, or the call of fetchObject(item.objectID).
selectItem(item) ==
  /\ ~MicrotaskPending
  /\ selected' = item
  /\ LET cached == cacheRef[item.objectID]
     IN IF IsCached(cached)
        THEN /\ selectedDetails' = cached
             /\ detailsLoading' = FALSE
             /\ UNCHANGED detailFetch
        ELSE /\ Len(detailFetch) < MaxDetails
             /\ selectedDetails' = NoItem
             /\ detailsLoading' = TRUE
             /\ detailFetch' = Append(detailFetch, item)
  /\ UNCHANGED <<searchIdRef, abortRef, aborted, cacheRef, submittedQuery, isSearching,
                 error, results, sess, runner, bridgeVars, variantVars>>

\* The k-th detail fetch in flight returns the object: .then, then .finally.
DetailLoads(k) ==
  /\ k \in DOMAIN detailFetch
  /\ ~MicrotaskPending
  /\ LET item == detailFetch[k]
         details == Catalog(item.objectID)
     IN /\ cacheRef' = DetailStored(cacheRef, item, details)
        /\ selectedDetails' = details
  /\ detailsLoading' = FALSE
  /\ detailFetch' = RemoveAt(detailFetch, k)
  /\ UNCHANGED <<searchIdRef, abortRef, aborted, submittedQuery, isSearching,
                 error, results, selected, sess, runner, bridgeVars, variantVars>>

\* The k-th detail fetch in flight throws: .catch, then .finally.
DetailFails(k) ==
  /\ k \in DOMAIN detailFetch
  /\ ~MicrotaskPending
  /\ selectedDetails' = DetailFallback(detailFetch[k])
  /\ detailsLoading' = FALSE
  /\ detailFetch' = RemoveAt(detailFetch, k)
  /\ UNCHANGED <<searchIdRef, abortRef, aborted, cacheRef, submittedQuery, isSearching,
                 error, results, selected, sess, runner, bridgeVars, variantVars>>

closeDetailsBuggy == Reset
closeDetails ==
  /\ ~MicrotaskPending
  /\ selected' = NoItem
  /\ selectedDetails' = NoItem
  /\ UNCHANGED <<hookVars, runner, submittedQuery, isSearching, error, results,
                 detailsLoading, bridgeVars, variantVars>>

\* Searches, resets and selections, over the catalog's answer to one query.
DetailIds == {MaxId, MaxId - 1}
DetailResponse == [total |-> 2, objectIDs |-> <<MaxId, MaxId - 1>>]

DetailNext ==
  \/ \E term \in Terms : Search(term)
  \/ Reset
  \/ \E s \in Sessions : SearchResponds(s, DetailResponse)
  \/ \E s \in Sessions : SearchContinues(s)
  \/ \E s \in Sessions : FetchBatchContinues(s)
  \/ \E s \in Sessions : PreloadContinues(s)
  \/ \E s \in Sessions, i \in ObjectIds : ObjectLoads(s, i)
  \/ \E s \in Sessions, i \in ObjectIds : ObjectFails(s, i)
  \/ \E s \in Sessions, i \in ObjectIds : ImageSettles(s, i)
  \/ \E s \in Sessions : TimerFires(s)
  \/ \E s \in Sessions : TaskSettled(s)
  \/ Tick(MIN_DELAY_MS)
  \/ \E item \in SelectableItems(DetailIds) : selectItem(item)
  \/ \E k \in 1..MaxDetails : DetailLoads(k)
  \/ \E k \in 1..MaxDetails : DetailFails(k)
  \/ closeDetails

DetailSpec == Init /\ [][DetailNext]_vars

\* Selections made while the first token is current, of any item of the catalog,
\* whose detail fetch is then left to end whenever it does, while searches and
\* resets go on.
EarlySelect(item) == searchIdRef = 1 /\ selectItem(item)

LateDetailNext ==
  \/ \E term \in Terms : Search(term)
  \/ Reset
  \/ \E s \in Sessions : SearchResponds(s, DetailResponse)
  \/ \E s \in Sessions : SearchContinues(s)
  \/ \E s \in Sessions : FetchBatchContinues(s)
  \/ \E s \in Sessions : PreloadContinues(s)
  \/ \E s \in Sessions, i \in ObjectIds : ObjectLoads(s, i)
  \/ \E s \in Sessions, i \in ObjectIds : ObjectFails(s, i)
  \/ \E s \in Sessions, i \in ObjectIds : ImageSettles(s, i)
  \/ \E s \in Sessions : TimerFires(s)
  \/ \E s \in Sessions : TaskSettled(s)
  \/ Tick(MIN_DELAY_MS)
  \/ \E item \in SelectableItems(ObjectIds) : EarlySelect(item)
  \/ \E k \in 1..MaxDetails : DetailLoads(k)
  \/ \E k \in 1..MaxDetails : DetailFails(k)

LateDetailSpec == Init /\ [][LateDetailNext]_vars

(* ---------------- the hook under a fair event loop: LiveSpec ----------- *)
\* The steps the event loop takes by itself: the end of a network call or of an
\* image load, a timer, the passing of time, a promise reaction.  The search
\* endpoint answers with the two identifiers of DetailResponse, or fails.
EventLoop ==
  \/ \E s \in Sessions : SearchResponds(s, DetailResponse)
  \/ \E s \in Sessions : SearchStatusNotOk(s)
  \/ \E s \in Sessions : SearchNetworkFails(s)
  \/ \E s \in Sessions : SearchContinues(s)
  \/ \E s \in Sessions : FetchBatchContinues(s)
  \/ \E s \in Sessions : PreloadContinues(s)
  \/ \E s \in Sessions, i \in ObjectIds : ObjectLoads(s, i)
  \/ \E s \in Sessions, i \in ObjectIds : ObjectFails(s, i)
  \/ \E s \in Sessions, i \in ObjectIds : ImageSettles(s, i)
  \/ \E s \in Sessions : TimerFires(s)
  \/ \E s \in Sessions : TaskSettled(s)
  \/ Tick(MIN_DELAY_MS)

LiveNext ==
  \/ \E term \in Terms : Search(term)
  \/ Reset
  \/ EventLoop

\* Every network call and image load ends, every timer fires and every queued
\* reaction runs: the event loop does not stop while it has a step to take.  The
\* calls of search and reset are the user's, and under no obligation.
LiveSpec == Init /\ [][LiveNext]_vars /\ WF_vars(EventLoop)

(* ------------- a search whose first fetch is the slowest: OrderSpec ---- *)
\* The fetch of the first identifier of a session ends after the fetch of every
\* other identifier of the session has reached its outcome.
FirstIsLast(s, i) ==
  i = 1 => \A j \in DOMAIN runner[s].task : j # 1 => runner[s].task[j].phase = "finished"

SlowFirstLoads(s, i) == FirstIsLast(s, i) /\ ObjectLoads(s, i)
SlowFirstFails(s, i) == FirstIsLast(s, i) /\ ObjectFails(s, i)

\* One search on an empty cache, and resets.
OrderNext ==
  \/ \E term \in Terms : FirstSearch(term)
  \/ Reset
  \/ \E s \in Sessions, data \in Responses : SearchResponds(s, data)
  \/ \E s \in Sessions : SearchContinues(s)
  \/ \E s \in Sessions : FetchBatchContinues(s)
  \/ \E s \in Sessions : PreloadContinues(s)
  \/ \E s \in Sessions, i \in ObjectIds : SlowFirstLoads(s, i)
  \/ \E s \in Sessions, i \in ObjectIds : SlowFirstFails(s, i)
  \/ \E s \in Sessions, i \in ObjectIds : ImageSettles(s, i)
  \/ \E s \in Sessions : TimerFires(s)
  \/ \E s \in Sessions : TaskSettled(s)
  \/ Tick(MIN_DELAY_MS)

OrderSpec == Init /\ [][OrderNext]_vars

(* --------------- a search over a broken image: PreloadSpec ------------- *)
\* The image of identifier 1 cannot be loaded.
Broken(item) == item.objectID = 1
GoodImageLoads(s, i) == ImageLoads(s, i) /\ ~Broken(runner[s].items[i])

\* One search, and resets.
PreloadNext ==
  \/ \E term \in Terms : FirstSearch(term)
  \/ Reset
  \/ \E s \in Sessions, data \in Responses : SearchResponds(s, data)
  \/ \E s \in Sessions : SearchContinues(s)
  \/ \E s \in Sessions : FetchBatchContinues(s)
  \/ \E s \in Sessions : PreloadContinues(s)
  \/ \E s \in Sessions, i \in ObjectIds : ObjectLoads(s, i)
  \/ \E s \in Sessions, i \in ObjectIds : ObjectFails(s, i)
  \/ \E s \in Sessions, i \in ObjectIds : GoodImageLoads(s, i)
  \/ \E s \in Sessions, i \in ObjectIds : ImageErrors(s, i)
  \/ \E s \in Sessions : TimerFires(s)
  \/ \E s \in Sessions : TaskSettled(s)
  \/ Tick(MIN_DELAY_MS)

PreloadSpec == Init /\ [][PreloadNext]_vars

(* ------------- searches only, blank ones included: BlankSpec ----------- *)
\* No reset() is called: a token without a session comes from a blank search.
BlankNext ==
  \/ \E term \in Terms : Search(term)
  \/ \E s \in Sessions, data \in Responses : SearchResponds(s, data)
  \/ \E s \in Sessions : SearchStatusNotOk(s)
  \/ \E s \in Sessions : SearchContinues(s)
  \/ \E s \in Sessions : FetchBatchContinues(s)
  \/ \E s \in Sessions : PreloadContinues(s)
  \/ \E s \in Sessions, i \in ObjectIds : ObjectLoads(s, i)
  \/ \E s \in Sessions, i \in ObjectIds : ObjectFails(s, i)
  \/ \E s \in Sessions, i \in ObjectIds : ImageSettles(s, i)
  \/ \E s \in Sessions : TimerFires(s)
  \/ \E s \in Sessions : TaskSettled(s)
  \/ Tick(MIN_DELAY_MS)

BlankSpec == Init /\ [][BlankNext]_vars

(* ---------------- the task runner on its own: RunnerSpec --------------- *)
RunnerNext ==
  \/ \E n \in 0..MaxItems, C \in 1..MaxLimit, D \in 0..MaxDelay : RunStarts(n, C, D)
  \/ Tick(1)
  \/ TimerFires(Standalone)
  \/ \E i \in 1..MaxItems : WorkerSucceeds(Standalone, i)
  \/ \E i \in 1..MaxItems : WorkerFails(Standalone, i)
  \/ TaskSettled(Standalone)

RunnerSpec == Init /\ [][RunnerNext]_vars

(* ------- a search whose response is longer than the limit: CancelSpec --- *)
\* One identifier more than the runner launches at once.
LongIds == [i \in 1..(MAX_CONCURRENT + 1) |-> i]
LongResponse == [total |-> Len(LongIds), objectIDs |-> LongIds]

CancelInit ==
  /\ searchIdRef = 0
  /\ abortRef = 0
  /\ aborted = [s \in Sessions |-> FALSE]
  /\ cacheRef = [id \in 1..Len(LongIds) |-> NoItem]
  /\ submittedQuery = <<>>
  /\ isSearching = FALSE
  /\ error = ""
  /\ results = <<>>
  /\ selected = NoItem
  /\ selectedDetails = NoItem
  /\ detailsLoading = FALSE
  /\ detailFetch = <<>>
  /\ sess = [s \in Sessions |-> NoSession]
  /\ runner = [r \in RunnerIds |-> NoRun]
  /\ save = NoSave
  /\ viewport = NoViewport
  /\ incremental = NoIncremental
  /\ filename = NoFilename

\* One search, and resets.
CancelNext ==
  \/ FirstSearch(<<"c", "a", "t">>)
  \/ Reset
  \/ \E s \in Sessions : SearchResponds(s, LongResponse)
  \/ \E s \in Sessions : SearchContinues(s)
  \/ \E s \in Sessions : FetchBatchContinues(s)
  \/ \E s \in Sessions : PreloadContinues(s)
  \/ \E s \in Sessions, i \in DOMAIN LongIds : ObjectLoads(s, i)
  \/ \E s \in Sessions, i \in DOMAIN LongIds : ImageSettles(s, i)
  \/ \E s \in Sessions : TimerFires(s)
  \/ \E s \in Sessions : TaskSettled(s)
  \/ Tick(MIN_DELAY_MS)

CancelSpec == CancelInit /\ [][CancelNext]_vars

(* -------- a search whose response is longer than a page: PageSpec ------- *)
\* One identifier more than a page holds.
PageIds == [i \in 1..(PAGE_SIZE + 1) |-> i]
PageResponse == [total |-> Len(PageIds), objectIDs |-> PageIds]

PageInit ==
  /\ searchIdRef = 0
  /\ abortRef = 0
  /\ aborted = [s \in Sessions |-> FALSE]
  /\ cacheRef = [id \in 1..Len(PageIds) |-> NoItem]
  /\ submittedQuery = <<>>
  /\ isSearching = FALSE
  /\ error = ""
  /\ results = <<>>
  /\ selected = NoItem
  /\ selectedDetails = NoItem
  /\ detailsLoading = FALSE
  /\ detailFetch = <<>>
  /\ sess = [s \in Sessions |-> NoSession]
  /\ runner = [r \in RunnerIds |-> NoRun]
  /\ save = NoSave
  /\ viewport = NoViewport
  /\ incremental = NoIncremental
  /\ filename = NoFilename

\* The catalog and the image server answer within the delay between two launches:
\* no time passes while a request is in flight.
QuietTick ==
  /\ \A s \in Sessions : WorkerTasks(runner[s]) = {}
  /\ Tick(MIN_DELAY_MS)

\* One search, every fetch of which succeeds.
PageNext ==
  \/ FirstSearch(<<"c", "a", "t">>)
  \/ \E s \in Sessions : SearchResponds(s, PageResponse)
  \/ \E s \in Sessions : SearchContinues(s)
  \/ \E s \in Sessions : FetchBatchContinues(s)
  \/ \E s \in Sessions : PreloadContinues(s)
  \/ \E s \in Sessions, i \in DOMAIN PageIds : ObjectLoads(s, i)
  \/ \E s \in Sessions, i \in DOMAIN PageIds : ImageSettles(s, i)
  \/ \E s \in Sessions : TimerFires(s)
  \/ \E s \in Sessions : TaskSettled(s)
  \/ QuietTick

PageSpec == PageInit /\ [][PageNext]_vars

(* ------------------ the save-image handler (src/src/main.ts) ------------ *)
\* The locals of one invocation of ipcMain.handle('save-image').  pc is the await
\* it is suspended at ("awaitDialog", "awaitDownload", "awaitWrite") or "returned";
\* dl is the state of downloadImage's request ("none", "requested", "receiving",
\* "ended", "failed", "aborted"), chunks the chunks its data listener collected,
\* buffer the argument of writeFile, file the content of the file at the chosen
\* path, written whether this invocation wrote it, response what the handler
\* returned.

\* A url as new URL(url) sees it: whether it parses, its scheme, and the extension
\* of its path.
Urls ==
  {[valid |-> TRUE, https |-> TRUE, ext |-> <<".", "p", "n", "g">>],
   [valid |-> TRUE, https |-> FALSE, ext |-> <<>>],
   [valid |-> FALSE, https |-> FALSE, ext |-> <<>>]}

\* The payloads of an invocation: any url, with or without a default name.
Payloads ==
  {[url |-> u] : u \in Urls}
    \cup {[url |-> u, defaultName |-> n] : u \in Urls, n \in {<<" ">>, <<" ", "a", " ">>}}

\* defaultName?.trim() || 'met-image'
FilenameBase(payload) ==
  IF "defaultName" \in DOMAIN payload /\ Trim(payload.defaultName) # <<>>
  THEN Trim(payload.defaultName)
  ELSE <<"m", "e", "t", "-", "i", "m", "a", "g", "e">>

\* path.extname(new URL(url).pathname) || '.jpg'
Extension(url) == IF url.ext # <<>> THEN url.ext ELSE <<".", "j", "p", "g">>

\* What the user does with the save dialog: cancel it, or confirm a path.
ChosenPath == "/home/user/image.png"
DialogResults ==
  {[canceled |-> TRUE, filePath |-> ""], [canceled |-> FALSE, filePath |-> ""],
   [canceled |-> FALSE, filePath |-> ChosenPath]}

\* if (canceled || !filePath)
DialogCanceledBuggy(result) == result.canceled
DialogCanceled(result) == result.canceled \/ result.filePath = ""

\* The bytes of the image, in the chunks the response delivers them in.
Body == [i \in 1..MaxChunks |-> i]

\* The status codes of a response.
Statuses == {200, 399, 400, 404}

\* if (response.statusCode && response.statusCode >= 400)
StatusFails(status) == status >= 400

\* The values the handler returns.
Canceled == [canceled |-> TRUE]
Saved(filePath) == [canceled |-> FALSE, filePath |-> filePath]
\* error instanceof Error ? error.message : 'Unable to save image'
SaveFailed(err) ==
  [canceled |-> FALSE,
   error |-> IF "message" \in DOMAIN err THEN err.message ELSE "Unable to save image"]

InvalidUrl == [name |-> "TypeError", message |-> "Invalid URL"]
\* new Error(`Download failed: ${response.statusCode}`)
DownloadFailed(status) ==
  [name |-> "Error", message |-> "Download failed: " \o ToString(status)]
RequestError == [name |-> "Error", message |-> "connect ECONNREFUSED"]
WriteError == [name |-> "Error", message |-> "EACCES: permission denied"]

\* The handler returns v.
SaveReturns(v) == [save EXCEPT !.pc = "returned", !.response = v]

\* An invocation up to its first await, the save dialog; new URL(url) throws on a
\* url that does not parse.
SaveImage(payload) ==
  /\ save.pc \in {"idle", "returned"}
  /\ save.calls < MaxSaves
  /\ LET fresh == [NoSave EXCEPT !.calls = save.calls + 1, !.file = save.file]
     IN save' =
          IF ~payload.url.valid
          THEN [fresh EXCEPT !.pc = "returned", !.response = SaveFailed(InvalidUrl)]
          ELSE [fresh EXCEPT !.pc = "awaitDialog", !.url = payload.url,
                             !.defaultPath = FilenameBase(payload) \o Extension(payload.url)]
  /\ UNCHANGED <<hookVars, uiVars, runner, filename, variantVars>>

\* The save dialog closes: the handler returns canceled, or calls downloadImage.
DialogCloses(result) ==
  /\ save.pc = "awaitDialog"
  /\ save' = IF DialogCanceled(result) THEN SaveReturns(Canceled)
             ELSE [save EXCEPT !.pc = "awaitDownload", !.filePath = result.filePath,
                               !.dl = "requested"]
  /\ UNCHANGED <<hookVars, uiVars, runner, filename, variantVars>>

\* The request emits 'error' (no response arrived): reject, and the catch returns.
RequestFails ==
  /\ save.pc = "awaitDownload" /\ save.dl = "requested"
  /\ save' = [SaveReturns(SaveFailed(RequestError)) EXCEPT !.dl = "failed"]
  /\ UNCHANGED <<hookVars, uiVars, runner, filename, variantVars>>

\* The response arrives: the callback of client.get rejects on a status of 400 or
\* more, and listens for 'data' and 'end' otherwise.
ResponseArrives(status) ==
  /\ save.pc = "awaitDownload" /\ save.dl = "requested"
  /\ save' = IF StatusFails(status)
             THEN [SaveReturns(SaveFailed(DownloadFailed(status))) EXCEPT !.dl = "failed"]
             ELSE [save EXCEPT !.dl = "receiving"]
  /\ UNCHANGED <<hookVars, uiVars, runner, filename, variantVars>>

\* response.on('data', (chunk) => chunks.push(chunk))
DataArrives ==
  /\ save.pc = "awaitDownload" /\ save.dl = "receiving"
  /\ Len(save.chunks) < Len(Body)
  /\ save' = [save EXCEPT !.chunks = Append(@, Body[Len(@) + 1])]
  /\ UNCHANGED <<hookVars, uiVars, runner, filename, variantVars>>

\* response.on('end', () => resolve(Buffer.concat(chunks))), after the last chunk:
\* the handler calls writeFile(filePath, buffer).
ResponseEnds ==
  /\ save.pc = "awaitDownload" /\ save.dl = "receiving"
  /\ save.chunks = Body
  /\ save' = [save EXCEPT !.pc = "awaitWrite", !.dl = "ended", !.buffer = save.chunks]
  /\ UNCHANGED <<hookVars, uiVars, runner, filename, variantVars>>

\* The connection is lost after the response arrived and before its end: the
\* response emits 'aborted' and 'error', never 'end', and the request emits no
\* 'error'.  downloadImage listens to 'data' and 'end' on the response and to
\* 'error' on the request only, so its promise stays pending.
ResponseAborted ==
  /\ save.pc = "awaitDownload" /\ save.dl = "receiving"
  /\ save' = [save EXCEPT !.dl = "aborted"]
  /\ UNCHANGED <<hookVars, uiVars, runner, filename, variantVars>>

\* fs.promises.writeFile resolves: the file holds the buffer.
WriteSucceeds ==
  /\ save.pc = "awaitWrite"
  /\ save' = [SaveReturns(Saved(save.filePath)) EXCEPT !.file = save.buffer,
                                                      !.written = TRUE]
  /\ UNCHANGED <<hookVars, uiVars, runner, filename, variantVars>>

\* fs.promises.writeFile rejects, the file untouched (it could not be opened) or
\* holding the first n bytes of the buffer.
WriteFails(opened, n) ==
  /\ save.pc = "awaitWrite"
  /\ n < Len(save.buffer)
  /\ save' = [SaveReturns(SaveFailed(WriteError)) EXCEPT
               !.file = IF opened THEN SubSeq(save.buffer, 1, n) ELSE @,
               !.written = opened]
  /\ UNCHANGED <<hookVars, uiVars, runner, filename, variantVars>>

SaveNext ==
  \/ \E payload \in Payloads : SaveImage(payload)
  \/ \E result \in DialogResults : DialogCloses(result)
  \/ RequestFails
  \/ \E status \in Statuses : ResponseArrives(status)
  \/ DataArrives
  \/ ResponseEnds
  \/ ResponseAborted
  \/ WriteSucceeds
  \/ \E opened \in BOOLEAN, n \in 0..MaxChunks : WriteFails(opened, n)

SaveSpec == Init /\ [][SaveNext]_vars

(* ------------------------ buildDefaultFilename ------------------------- *)
\* A string is a sequence of characters.
UpperCase ==
  <<"A", "B", "C", "D", "E", "F", "G", "H", "I", "J", "K", "L", "M",
    "N", "O", "P", "Q", "R", "S", "T", "U", "V", "W", "X", "Y", "Z">>
LowerCase ==
  <<"a", "b", "c", "d", "e", "f", "g", "h", "i", "j", "k", "l", "m",
    "n", "o", "p", "q", "r", "s", "t", "u", "v", "w", "x", "y", "z">>
DigitChars == <<"0", "1", "2", "3", "4", "5", "6", "7", "8", "9">>

\* .toLowerCase()
ToLower(c) ==
  IF \E i \in DOMAIN UpperCase : UpperCase[i] = c
  THEN LowerCase[CHOOSE i \in DOMAIN UpperCase : UpperCase[i] = c]
  ELSE c
ToLowerCase(q) == [i \in 1..Len(q) |-> ToLower(q[i])]

\* [a-z0-9]
IsAlnum(c) ==
  \/ \E i \in DOMAIN LowerCase : LowerCase[i] = c
  \/ \E i \in DOMAIN DigitChars : DigitChars[i] = c

\* .replace(/[^a-z0-9]+/g, '-'): every maximal run of other characters becomes
\* one hyphen.
RECURSIVE SkipRun(_)
SkipRun(q) == IF q # <<>> /\ ~IsAlnum(Head(q)) THEN SkipRun(Tail(q)) ELSE q
RECURSIVE ReplaceRuns(_)
ReplaceRuns(q) ==
  IF q = <<>> THEN <<>>
  ELSE IF IsAlnum(Head(q)) THEN <<Head(q)>> \o ReplaceRuns(Tail(q))
  ELSE <<"-">> \o ReplaceRuns(SkipRun(Tail(q)))

\* .replace(/^-|-$/g, ''): a hyphen at the start and a hyphen at the end go.
StripEndsBuggy(q) == q
StripEnds(q) ==
  LET a == IF q # <<>> /\ Head(q) = "-" THEN Tail(q) ELSE q
  IN IF a # <<>> /\ a[Len(a)] = "-" THEN SubSeq(a, 1, Len(a) - 1) ELSE a

\* `${object.objectID}`: the decimal digits of a natural number.
RECURSIVE Digits(_)
Digits(n) ==
  IF n < 10 THEN <<DigitChars[n + 1]>>
  ELSE Digits(n \div 10) \o <<DigitChars[(n % 10) + 1]>>

buildDefaultFilename(object) ==
  LET safeTitle == StripEnds(ReplaceRuns(ToLowerCase(object.title)))
  IN IF safeTitle # <<>> THEN safeTitle
     ELSE <<"m", "e", "t", "-">> \o Digits(object.objectID)

\* The titles of at most MaxTitle characters over an upper-case letter, a
\* lower-case letter, a digit, a space, a hyphen and a punctuation mark; the
\* identifiers of the catalog and one of two digits.
TitleChars == {"W", "a", "4", " ", "-", "!"}
Titles == UNION {[1..n -> TitleChars] : n \in 0..MaxTitle}
TitleIds == ObjectIds \cup {42}

\* The object a caller is about to hand to buildDefaultFilename.
FilenameInit ==
  /\ searchIdRef = 0
  /\ abortRef = 0
  /\ aborted = [s \in Sessions |-> FALSE]
  /\ cacheRef = [id \in ObjectIds |-> NoItem]
  /\ submittedQuery = <<>>
  /\ isSearching = FALSE
  /\ error = ""
  /\ results = <<>>
  /\ selected = NoItem
  /\ selectedDetails = NoItem
  /\ detailsLoading = FALSE
  /\ detailFetch = <<>>
  /\ sess = [s \in Sessions |-> NoSession]
  /\ runner = [r \in RunnerIds |-> NoRun]
  /\ save = NoSave
  /\ viewport = NoViewport
  /\ incremental = NoIncremental
  /\ filename \in {[NoFilename EXCEPT !.object = [title |-> title, objectID |-> id]] :
                     title \in Titles, id \in TitleIds}

\* The call of buildDefaultFilename(object).
BuildDefaultFilename ==
  /\ ~filename.called
  /\ filename' = [filename EXCEPT !.called = TRUE,
                                  !.name = buildDefaultFilename(filename.object)]
  /\ UNCHANGED <<hookVars, uiVars, runner, save, variantVars>>

FilenameNext == BuildDefaultFilename

FilenameSpec == FilenameInit /\ [][FilenameNext]_vars

(* ------ the revision that fetches a tile when it scrolls into view ------ *)
\* A fetch the queue has handed to a timer.  searchId and signal are the
\* arguments of the processQueue call that dequeued id; phase is "timer" until
\* the setTimeout callback runs and "fetch" while fetchObject is awaited;
\* session is the token that was current when id was enqueued.
ViewportTask(id, searchId, signal, session) ==
  [id |-> id, searchId |-> searchId, signal |-> signal, phase |-> "timer",
   session |-> session]

\* setLoadedById((prev) => prev[id] ? prev : { ...prev, [id]: item })
Loaded(prev, id, item) == IF prev[id] # NoItem THEN prev ELSE [prev EXCEPT ![id] = item]

\* processQueue(searchId, signal): while a slot is free and the queue is not
\* empty, shift an identifier and set its timer.  The timers are due at least
\* MIN_DELAY_MS apart in the order they are set (lastStartRef), and tasks keeps
\* that order.
RECURSIVE processQueue(_, _, _)
processQueue(v, searchId, signal) ==
  IF v.activeRef < VIEWPORT_MAX_CONCURRENT /\ v.queueRef # <<>>
  THEN processQueue(
         [v EXCEPT !.queueRef = Tail(@),
                   !.activeRef = @ + 1,
                   !.tasks = Append(@, ViewportTask(Head(v.queueRef), searchId, signal,
                                                    v.searchIdRef))],
         searchId, signal)
  ELSE v

\* if (pendingRef.current.has(id)) return
IsPending(v, id) == id \in v.pendingRef

\* enqueueFetch(id, searchId, signal)
enqueueFetch(v, id, searchId, signal) ==
  IF IsPending(v, id) THEN v
  ELSE IF v.cacheRef[id] # NoItem
  THEN [v EXCEPT !.loadedById = Loaded(@, id, v.cacheRef[id])]
  ELSE processQueue([v EXCEPT !.pendingRef = @ \cup {id},
                              !.queueRef = Append(@, id)],
                    searchId, signal)

\* The finally of the timer callback of task k: pendingRef.current.delete(id);
\* activeRef.current -= 1; processQueue(searchId, signal).
ViewportFinally(v, k) ==
  LET t == v.tasks[k]
  IN processQueue([v EXCEPT !.pendingRef = @ \ {t.id},
                            !.activeRef = @ - 1,
                            !.tasks = RemoveAt(@, k)],
                  t.searchId, t.signal)

\* The fetches whose signal has fired: each has thrown an AbortError, and its
\* catch and finally are queued, to run before any macrotask.
AbortedFetches(v) ==
  {k \in DOMAIN v.tasks : v.tasks[k].phase = "fetch" /\ v.tasks[k].signal \in v.aborted}
ViewportMicrotaskPending == AbortedFetches(viewport) # {}

\* The tile of an identifier of the list on display scrolls into view: the
\* observer calls enqueueFetch(id, searchIdRef.current, abortRef.current?.signal).
TileIntersects(id) ==
  /\ ~ViewportMicrotaskPending
  /\ \E i \in DOMAIN viewport.objectIDs : viewport.objectIDs[i] = id
  /\ viewport' = enqueueFetch(viewport, id, viewport.searchIdRef, viewport.abortRef)
  /\ UNCHANGED <<hostVars, incremental>>

\* handleClear, which runSearch calls for a blank term.
handleClear ==
  /\ ~ViewportMicrotaskPending
  /\ viewport.searchIdRef < MaxToken
  /\ viewport' = [viewport EXCEPT
       !.searchIdRef = @ + 1,
       !.aborted = IF viewport.abortRef = 0 THEN @ ELSE @ \cup {viewport.abortRef},
       !.request = "none",
       !.submittedQuery = <<>>,
       !.objectIDs = <<>>,
       !.loadedById = [id \in ObjectIds |-> NoItem],
       !.queueRef = <<>>,
       !.pendingRef = {},
       !.isSearching = FALSE,
       !.error = ""]
  /\ UNCHANGED <<hostVars, incremental>>

\* runSearch(term) up to its first await.
runSearch(term) ==
  LET trimmed == Trim(term)
      searchId == viewport.searchIdRef + 1
  IN IF trimmed = <<>> THEN handleClear
     ELSE /\ viewport.searchIdRef < MaxToken
          /\ ~ViewportMicrotaskPending
          /\ viewport' = [viewport EXCEPT
               !.searchIdRef = searchId,
               !.aborted = IF viewport.abortRef = 0 THEN @ ELSE @ \cup {viewport.abortRef},
               !.abortRef = searchId,
               !.request = "pending",
               !.error = "",
               !.isSearching = TRUE,
               !.submittedQuery = trimmed,
               !.objectIDs = <<>>,
               !.loadedById = [id \in ObjectIds |-> NoItem],
               !.queueRef = <<>>,
               !.pendingRef = {}]
          /\ UNCHANGED <<hostVars, incremental>>

\* The items of ids the cache holds: cachedItems in runSearch.
CachedItems(v, ids) ==
  [id \in ObjectIds |->
     IF \E i \in DOMAIN ids : ids[i] = id THEN v.cacheRef[id] ELSE NoItem]

\* The search request of the controller in abortRef answers, and runSearch runs
\* to its end.  The request of an earlier call was aborted: its catch returns and
\* its finally finds another token.
ViewportResponds(data) ==
  /\ ~ViewportMicrotaskPending
  /\ viewport.request = "pending"
  /\ LET ids == Slice(ObjectIDs(data), VIEWPORT_PAGE_SIZE)
         cachedItems == CachedItems(viewport, ids)
     IN viewport' = [viewport EXCEPT
          !.request = "none",
          !.objectIDs = ids,
          !.loadedById = IF \E id \in ObjectIds : cachedItems[id] # NoItem
                         THEN cachedItems ELSE @,
          !.isSearching = FALSE]
  /\ UNCHANGED <<hostVars, incremental>>

ViewportSearchFails(err) ==
  /\ ~ViewportMicrotaskPending
  /\ viewport.request = "pending"
  /\ viewport' = [viewport EXCEPT !.request = "none",
                                  !.error = ErrorMessage(err),
                                  !.isSearching = FALSE]
  /\ UNCHANGED <<hostVars, incremental>>

\* The first timer set that has not fired.
NextTimer(v) ==
  CHOOSE k \in DOMAIN v.tasks :
    /\ v.tasks[k].phase = "timer"
    /\ \A j \in 1..(k - 1) : v.tasks[j].phase # "timer"

\* The setTimeout callback of a task runs up to its first await, or to its end.
ViewportTimerFires ==
  /\ ~ViewportMicrotaskPending
  /\ \E k \in DOMAIN viewport.tasks : viewport.tasks[k].phase = "timer"
  /\ LET k == NextTimer(viewport)
         t == viewport.tasks[k]
         cached == viewport.cacheRef[t.id]
     IN viewport' =
          IF viewport.searchIdRef # t.searchId THEN ViewportFinally(viewport, k)
          ELSE IF cached # NoItem
          THEN ViewportFinally([viewport EXCEPT !.loadedById = Loaded(@, t.id, cached)], k)
          ELSE [viewport EXCEPT !.tasks[k].phase = "fetch"]
  /\ UNCHANGED <<hostVars, incremental>>

\* fetchObject(id, signal) of task k returns the object.
ViewportFetchLoads(k) ==
  /\ ~ViewportMicrotaskPending
  /\ k \in DOMAIN viewport.tasks
  /\ viewport.tasks[k].phase = "fetch"
  /\ viewport.tasks[k].signal \notin viewport.aborted
  /\ LET id == viewport.tasks[k].id
         item == Catalog(id)
     IN viewport' =
          IF ~HasImage(item) THEN ViewportFinally(viewport, k)
          ELSE ViewportFinally([viewport EXCEPT !.cacheRef[id] = item,
                                                !.loadedById = Loaded(@, id, item)], k)
  /\ UNCHANGED <<hostVars, incremental>>

\* fetchObject(id, signal) of task k throws: the status is not ok, the network
\* fails, or the signal has fired, which rejects the fetches under it in the
\* order they were made.  The catch swallows each of them.
ViewportFetchFails(k) ==
  /\ k \in DOMAIN viewport.tasks
  /\ viewport.tasks[k].phase = "fetch"
  /\ ViewportMicrotaskPending => k = Lowest(AbortedFetches(viewport))
  /\ viewport' = ViewportFinally(viewport, k)
  /\ UNCHANGED <<hostVars, incremental>>

ViewportIds == [i \in 1..MaxId |-> i]
ViewportResponse == [total |-> MaxId, objectIDs |-> ViewportIds]

ViewportNext ==
  \/ \E term \in Terms : runSearch(term)
  \/ handleClear
  \/ ViewportResponds(ViewportResponse)
  \/ ViewportSearchFails(NetworkError)
  \/ \E id \in ObjectIds : TileIntersects(id)
  \/ ViewportTimerFires
  \/ \E k \in 1..VIEWPORT_MAX_CONCURRENT : ViewportFetchLoads(k)
  \/ \E k \in 1..VIEWPORT_MAX_CONCURRENT : ViewportFetchFails(k)

ViewportSpec == Init /\ [][ViewportNext]_vars

(* ------- the revision that shows each item as soon as it resolves ------- *)
\* The tokens of that revision: one more than the searches that may be superseded.
Tokens == 1..(MaxToken + 1)

\* startNext: resolve when nothing is left, else set the timer of each identifier
\* a slot is free for.  The timers of one call are due at least MIN_DELAY_MS apart
\* in the order of the identifiers.
RECURSIVE LaunchPage(_)
LaunchPage(pg) ==
  IF pg.active < INCREMENTAL_MAX_CONCURRENT /\ pg.currentIndex < Len(pg.items)
  THEN LaunchPage([pg EXCEPT !.currentIndex = @ + 1,
                             !.active = @ + 1,
                             !.task[pg.currentIndex + 1].phase = "timer"])
  ELSE pg

\* if (currentIndex >= items.length && active === 0) resolve(results)
PageDone(pg) == pg.currentIndex >= Len(pg.items) /\ pg.active = 0
startNext(pg) == IF PageDone(pg) THEN pg ELSE LaunchPage(pg)

\* runWithConcurrency(ids, handler, MAX_CONCURRENT, MIN_DELAY_MS, onItem), as
\* loadNextPage calls it under the signal of session s.
loadNextPage(ids, s) ==
  startNext([NoPage EXCEPT !.items = ids, !.signal = s,
                           !.task = [i \in 1..Len(ids) |-> NewPageTask]])

\* results.push(value)
PushedBuggy(res, value) == <<value>> \o res
Pushed(res, value) == Append(res, value)

\* setItems((prev) => prev.find((item) => item.objectID === value.objectID)
\*                      ? prev : [...prev, value])
OnItem(prev, value) ==
  IF \E k \in DOMAIN prev : prev[k].objectID = value.objectID THEN prev
  ELSE Append(prev, value)

\* controller.abort(): the fetches under the signal in abortRef throw, and the
\* handler of each returns null.
AbortPages(v) ==
  [s \in Tokens |->
     IF v.page[s].signal # v.abortRef THEN v.page[s]
     ELSE [v.page[s] EXCEPT !.task =
             [i \in DOMAIN @ |->
                IF @[i].phase = "fetch" THEN [@[i] EXCEPT !.phase = "settled"]
                ELSE @[i]]]]

SettledPageTasks(pg) == {i \in DOMAIN pg.task : pg.task[i].phase = "settled"}
TimerPageTasks(pg) == {i \in DOMAIN pg.task : pg.task[i].phase = "timer"}

\* A handler has returned and its then and finally are queued.
PageMicrotaskPending == \E s \in Tokens : SettledPageTasks(incremental.page[s]) # {}

handleClearIncremental ==
  /\ incremental.searchIdRef <= MaxToken
  /\ ~PageMicrotaskPending
  /\ incremental' = [incremental EXCEPT
       !.searchIdRef = @ + 1,
       !.aborted = IF incremental.abortRef = 0 THEN @ ELSE @ \cup {incremental.abortRef},
       !.page = AbortPages(incremental),
       !.request = "none",
       !.submittedQuery = <<>>,
       !.items = <<>>,
       !.objectIDs = <<>>,
       !.isSearching = FALSE,
       !.error = ""]
  /\ UNCHANGED <<hostVars, viewport>>

\* runSearch(term) up to its first await.
runSearchIncremental(term) ==
  LET trimmed == Trim(term)
      searchId == incremental.searchIdRef + 1
  IN IF trimmed = <<>> THEN handleClearIncremental
     ELSE /\ incremental.searchIdRef <= MaxToken
          /\ ~PageMicrotaskPending
          /\ incremental' = [incremental EXCEPT
               !.searchIdRef = searchId,
               !.aborted = IF incremental.abortRef = 0 THEN @
                           ELSE @ \cup {incremental.abortRef},
               !.page = AbortPages(incremental),
               !.abortRef = searchId,
               !.request = "pending",
               !.error = "",
               !.isSearching = TRUE,
               !.submittedQuery = trimmed,
               !.items = <<>>,
               !.objectIDs = <<>>]
          /\ UNCHANGED <<hostVars, viewport>>

\* The search request of the controller in abortRef answers: runSearch goes on to
\* loadNextPage, or to its end when there is no identifier.
IncrementalResponds(data) ==
  /\ incremental.request = "pending"
  /\ ~PageMicrotaskPending
  /\ LET ids == Slice(ObjectIDs(data), INCREMENTAL_PAGE_SIZE)
         s == incremental.searchIdRef
     IN incremental' =
          IF ids = <<>>
          THEN [incremental EXCEPT !.request = "none", !.objectIDs = ids,
                                   !.isSearching = FALSE]
          ELSE [incremental EXCEPT !.request = "none", !.objectIDs = ids,
                                   !.page[s] = loadNextPage(ids, s)]
  /\ UNCHANGED <<hostVars, viewport>>

IncrementalSearchFails(err) ==
  /\ incremental.request = "pending"
  /\ ~PageMicrotaskPending
  /\ incremental' = [incremental EXCEPT !.request = "none",
                                        !.error = ErrorMessage(err),
                                        !.isSearching = FALSE]
  /\ UNCHANGED <<hostVars, viewport>>

\* A task whose handler has returned value (NoItem for null); a value that is
\* not null is noted in the order of the returns.
HandlerReturns(pg, i, value) ==
  [pg EXCEPT !.task[i] = [phase |-> "settled", value |-> value],
             !.done = IF value = NoItem THEN @ ELSE Append(@, pg.items[i])]

\* The timer of identifier i of the call of session s is due: every identifier
\* is launched by the first startNext (there are fewer than MAX_CONCURRENT), the
\* i-th with a wait of (i - 1) * MIN_DELAY_MS, so the timers of a call fire in the
\* order of the identifiers, and none fires before the timer that an earlier
\* call set for the same or a lower position.
TimerDue(v, s, i) ==
  /\ i = Lowest(TimerPageTasks(v.page[s]))
  /\ \A r \in Tokens : r < s => \A j \in TimerPageTasks(v.page[r]) : j > i

\* The next timer of the call of session s fires and handler(id) is called: the
\* cached item, a fetch under the signal, or null when the signal has fired.
PageTimerFires(s) ==
  /\ TimerPageTasks(incremental.page[s]) # {}
  /\ TimerDue(incremental, s, Lowest(TimerPageTasks(incremental.page[s])))
  /\ ~PageMicrotaskPending
  /\ LET pg == incremental.page[s]
         i == Lowest(TimerPageTasks(pg))
         cached == incremental.cacheRef[pg.items[i]]
     IN incremental' = [incremental EXCEPT !.page[s] =
          IF cached # NoItem THEN HandlerReturns(pg, i, cached)
          ELSE IF pg.signal \in incremental.aborted THEN HandlerReturns(pg, i, NoItem)
          ELSE [pg EXCEPT !.task[i].phase = "fetch"]]
  /\ UNCHANGED <<hostVars, viewport>>

\* fetchObject(id, signal) returns the object: null for one without an image,
\* otherwise it is stored in the cache and returned.
PageFetchLoads(s, i) ==
  /\ i \in DOMAIN incremental.page[s].task
  /\ incremental.page[s].task[i].phase = "fetch"
  /\ ~PageMicrotaskPending
  /\ LET pg == incremental.page[s]
         item == Catalog(pg.items[i])
     IN incremental' =
          IF ~HasImage(item)
          THEN [incremental EXCEPT !.page[s] = HandlerReturns(pg, i, NoItem)]
          ELSE [incremental EXCEPT !.page[s] = HandlerReturns(pg, i, item),
                                   !.cacheRef[item.objectID] = item]
  /\ UNCHANGED <<hostVars, viewport>>

\* fetchObject(id, signal) throws, and the handler returns null.
PageFetchFails(s, i) ==
  /\ i \in DOMAIN incremental.page[s].task
  /\ incremental.page[s].task[i].phase = "fetch"
  /\ ~PageMicrotaskPending
  /\ incremental' = [incremental EXCEPT !.page[s] =
                        HandlerReturns(incremental.page[s], i, NoItem)]
  /\ UNCHANGED <<hostVars, viewport>>

\* The then and the finally of a handler that returned: results.push and onItem
\* for a value that is not null, active -= 1 and startNext().  When that resolves
\* the call, loadNextPage returns and the finally of runSearch runs.
PageTaskSettled(s) ==
  /\ SettledPageTasks(incremental.page[s]) # {}
  /\ LET pg == incremental.page[s]
         i == Lowest(SettledPageTasks(pg))
         value == pg.task[i].value
         next == startNext([pg EXCEPT
                   !.results = IF value = NoItem THEN @ ELSE Pushed(@, value),
                   !.active = @ - 1,
                   !.task[i].phase = "finished"])
     IN incremental' = [incremental EXCEPT
          !.items = IF value = NoItem THEN @ ELSE OnItem(@, value),
          !.page[s] = IF PageDone(next) THEN NoPage ELSE next,
          !.isSearching = IF PageDone(next) /\ incremental.searchIdRef = s
                          THEN FALSE ELSE @]
  /\ UNCHANGED <<hostVars, viewport>>

IncrementalResponse == [total |-> MaxId, objectIDs |-> [i \in 1..MaxId |-> i]]

IncrementalNext ==
  \/ \E term \in Terms : runSearchIncremental(term)
  \/ handleClearIncremental
  \/ IncrementalResponds(IncrementalResponse)
  \/ IncrementalSearchFails(NetworkError)
  \/ \E s \in Tokens : PageTimerFires(s)
  \/ \E s \in Tokens, i \in ObjectIds : PageFetchLoads(s, i)
  \/ \E s \in Tokens, i \in ObjectIds : PageFetchFails(s, i)
  \/ \E s \in Tokens : PageTaskSettled(s)

IncrementalSpec == Init /\ [][IncrementalNext]_vars

(* ------------------- claims about the task runner ---------------------- *)
Runs == {r \in RunnerIds : runner[r].kind # "none"}

\* Items launched that have not reached an outcome: waiting for their delay, in
\* their worker, or settled with their reactions still queued.
Unfinished(rn) ==
  {i \in DOMAIN rn.task : rn.task[i].phase \in {"timer", "worker", "settled"}}

\* C2: in every run, with any limit C >= 1 and any delay D >= 0, at most C items
\* are launched and without an outcome at any moment, those waiting for their
\* launch delay included.
C2_AtMostLimitActive ==
  \A r \in Runs :
    /\ Cardinality(Unfinished(runner[r])) <= runner[r].limit
    /\ runner[r].active = Cardinality(Unfinished(runner[r]))

\* A run saturated at a limit of two or more: as many items in flight as the limit
\* allows, one of them waiting for its delay, and items still to launch.
C2_Witness ==
  LET rn == runner[Standalone]
  IN /\ rn.kind = "task" /\ rn.limit >= 2
     /\ Cardinality(Unfinished(rn)) = rn.limit
     /\ TimerTasks(rn) # {} /\ WorkerTasks(rn) # {}
     /\ rn.index < Len(rn.items)

\* C3: within one run, the scheduled start times (now + wait, as kept in lastStart)
\* of two consecutively launched items are at least delayMs apart, whatever the
\* workers' durations and completion order.
C3_LaunchesSpaced ==
  \A r \in Runs :
    \A i \in 2..runner[r].index : runner[r].task[i].gap >= runner[r].delayMs

\* Three items launched under a delay of two or more, the second finished while
\* the first is still in its worker.
C3_Witness ==
  LET rn == runner[Standalone]
  IN /\ rn.kind = "task" /\ rn.delayMs >= 2 /\ rn.index >= 3
     /\ rn.task[1].phase = "worker"
     /\ rn.task[2].phase = "finished"
     /\ rn.task[3].phase = "timer" /\ rn.task[3].rem = 1

\* The outcome the runner must record for a worker promise.
OutcomeOf(p) ==
  IF p.status = "fulfilled" THEN [ok |-> TRUE, value |-> p.value]
  ELSE [ok |-> FALSE, error |-> p.reason]

AllFinished(rn) == \A i \in DOMAIN rn.task : rn.task[i].phase = "finished"

\* C4: the promise of a run resolves (it has no reject) with exactly N outcomes,
\* outcome i being success-with-value if worker i fulfilled and failure-with-error
\* if it rejected; it has resolved as soon as every item has finished, also when
\* every worker failed, and every item was run whatever its siblings did.
C4_ResolvesWithEveryOutcome ==
  \A r \in Runs :
    LET rn == runner[r]
    IN /\ rn.resolved <= 1
       /\ Len(rn.results) = Len(rn.items)
       /\ AllFinished(rn) => rn.resolved = 1
       /\ rn.resolved = 1 =>
            /\ AllFinished(rn)
            /\ \A i \in DOMAIN rn.items :
                 /\ IsSettled(rn.task[i].promise)
                 /\ rn.results[i] = OutcomeOf(rn.task[i].promise)
       /\ \A i \in DOMAIN rn.items :
            rn.kind = "task" /\ rn.task[i].phase = "finished" =>
              IF rn.results[i].ok THEN rn.results[i].value = rn.items[i]
              ELSE rn.results[i].error = WorkerError(rn.items[i])

\* A run of three items in which the first and the last worker failed and the
\* second succeeded has resolved.
C4_Witness ==
  LET rn == runner[Standalone]
  IN /\ rn.kind = "task" /\ Len(rn.items) = 3 /\ rn.resolved = 1
     /\ rn.results[1] = [ok |-> FALSE, error |-> WorkerError(1)]
     /\ rn.results[2] = [ok |-> TRUE, value |-> 2]
     /\ rn.results[3] = [ok |-> FALSE, error |-> WorkerError(3)]

\* A run of two items in which every worker failed has resolved with two failures.
C4_WitnessAllFail ==
  LET rn == runner[Standalone]
  IN /\ rn.kind = "task" /\ Len(rn.items) = 2 /\ rn.resolved = 1
     /\ \A i \in 1..2 : rn.results[i] = [ok |-> FALSE, error |-> WorkerError(i)]

(* ---------------------- claims about the sessions ---------------------- *)
\* useMemo(() => results.length, [results])
loadedCount == Len(results)

\* The session the current token belongs to (none after a reset).
Current(s) == s = searchIdRef /\ sess[s].pc # "idle"

\* A step of the search() call s after its first await (a network event, a timer
\* or a promise reaction of the session or of its run): no call is made, so the
\* token stays, and the locals of s or of its run change.
SessionStep(s) ==
  /\ searchIdRef' = searchIdRef
  /\ sess'[s] # sess[s] \/ runner'[s] # runner[s]

\* What the session holding the current token has produced so far, by itself.
ShowsCurrentSession ==
  IF searchIdRef = 0 \/ sess[searchIdRef].pc = "idle"
  THEN ~isSearching /\ results = <<>> /\ error = ""
  ELSE LET me == sess[searchIdRef]
       IN CASE me.pc \in {"awaitSearch", "awaitFetch", "awaitPreload"} ->
                 isSearching /\ results = <<>> /\ error = ""
            [] me.pc = "resultsReady" ->
                 ~isSearching /\ results = me.withImages /\ error = ""
            [] me.pc = "allFailed" ->
                 ~isSearching /\ results = <<>> /\ error = AllFailedMessage
            [] me.pc = "failed" ->
                 ~isSearching /\ results = <<>> /\ error = me.fetch.reason.message
            [] OTHER -> FALSE

\* C1: last-submitted-wins.  Once a later search or reset was submitted, no step
\* of an earlier session (its error path included) changes results, error or
\* isSearching, and at every moment these three are what the session holding the
\* current token has produced by itself.
C1_LastSubmittedWins ==
  /\ [](ShowsCurrentSession)
  /\ [][\A s \in Sessions :
          (searchIdRef # s /\ SessionStep(s)) =>
             UNCHANGED <<results, error, isSearching>>]_vars

\* The first search was superseded while its batch ran and has returned; the
\* second has published its results.
C1_Witness ==
  \E s \in Sessions :
    /\ searchIdRef = s + 1
    /\ sess[s].pc = "superseded"
    /\ sess[s + 1].pc = "resultsReady"
    /\ Len(results) = 2

\* C5: reset advances the token past the session whose signal it fires, and after
\* a reset isSearching is false and results, error and submitted query are empty,
\* also after every remaining continuation of the invalidated session has run.
C5_ResetDuringSearch ==
  /\ \A s \in Sessions : aborted[s] => searchIdRef > s
  /\ (searchIdRef > 0 /\ sess[searchIdRef].pc = "idle") =>
       /\ ~isSearching /\ results = <<>> /\ error = "" /\ submittedQuery = <<>>
       /\ abortRef # 0 => aborted[abortRef]
       /\ \A s \in Sessions : sess[s].pc # "idle" => s < searchIdRef

\* A reset was called while the batch of a session ran, and that session has run
\* to its end since.
C5_Witness ==
  \E s \in Sessions :
    /\ searchIdRef = s + 1
    /\ sess[s + 1].pc = "idle"
    /\ sess[s].pc = "superseded"
    /\ aborted[s]
    /\ ~isSearching /\ results = <<>> /\ error = ""

\* The per-object outcomes of a session that yielded a viewable item, and those
\* that failed.
ViewableAt(objectResults) ==
  {i \in DOMAIN objectResults :
     /\ ~IsHole(objectResults[i])
     /\ objectResults[i].ok
     /\ (objectResults[i].value.primaryImageSmall # ""
           \/ objectResults[i].value.primaryImage # "")}
FailedAt(objectResults) ==
  {i \in DOMAIN objectResults : ~IsHole(objectResults[i]) /\ ~objectResults[i].ok}

\* A session that got past its fetch batch and has returned, or awaits its preload.
Counted(s) == sess[s].pc \in {"awaitPreload", "resultsReady", "allFailed"}

\* C6: partial failure is absorbed.  A session holding the current token whose
\* fetches yielded at least one viewable item ends with results equal to exactly
\* the viewable successes, in the order of the identifiers, no error and
\* isSearching false, whatever the number of failures.
C6_PartialFailureAbsorbed ==
  \A s \in Sessions :
    LET res == sess[s].objectResults
        V == ViewableAt(res)
    IN (Current(s) /\ sess[s].pc \in {"resultsReady", "allFailed"} /\ V # {}) =>
         /\ sess[s].pc = "resultsReady"
         /\ error = "" /\ ~isSearching
         /\ Len(results) = Cardinality(V)
         /\ \A i \in V : results[Cardinality({j \in V : j <= i})] = res[i].value
         /\ \A i \in V : res[i].value = Catalog(sess[s].ids[i])

\* The scenario of the spec: ids <<1, 2, 3>>, object 3 failed, results are objects
\* 1 and 2 and no error is shown.
C6_Witness ==
  \E s \in Sessions :
    /\ Current(s) /\ sess[s].pc = "resultsReady"
    /\ sess[s].ids = <<1, 2, 3>>
    /\ FailedAt(sess[s].objectResults) = {3}
    /\ results = <<Catalog(1), Catalog(2)>>
    /\ error = "" /\ ~isSearching

\* C7: a session holding the current token with no viewable success and at least
\* one failed fetch ends with the all-failed error, no results and isSearching
\* false, and starts no image preload.
C7_AllFailed ==
  \A s \in Sessions :
    LET res == sess[s].objectResults
    IN (Current(s) /\ Counted(s) /\ ViewableAt(res) = {} /\ FailedAt(res) # {}) =>
         /\ sess[s].pc = "allFailed"
         /\ error = AllFailedMessage
         /\ results = <<>> /\ ~isSearching
         /\ runner[s].kind = "fetch"

\* The scenario of the spec: all three of <<1, 2, 3>> failed.
C7_Witness ==
  \E s \in Sessions :
    /\ Current(s) /\ sess[s].pc = "allFailed"
    /\ sess[s].ids = <<1, 2, 3>>
    /\ FailedAt(sess[s].objectResults) = {1, 2, 3}
    /\ error = AllFailedMessage /\ results = <<>> /\ ~isSearching

\* C8: the all-failed error is reported only for a session in which every
\* per-object fetch failed.
C8_AllFailedOnlyWhenEveryFetchFailed ==
  \A s \in Sessions :
    sess[s].pc = "allFailed" =>
      FailedAt(sess[s].objectResults) = DOMAIN sess[s].objectResults

\* C9: when the search endpoint returns no identifiers (objectIDs empty or
\* absent), the session holding the current token ends, in the same turn of the
\* event loop, with no results, no error, loadedCount 0 and isSearching false, and
\* no per-object fetch was made.
C9_EmptyResponse ==
  \A s \in Sessions :
    (/\ Current(s)
     /\ sess[s].fetch.status = "fulfilled"
     /\ ObjectIDs(sess[s].fetch.value) = <<>>
     /\ ~MicrotaskPending) =>
       /\ sess[s].pc = "resultsReady"
       /\ results = <<>> /\ error = "" /\ loadedCount = 0 /\ ~isSearching
       /\ sess[s].objectResults = <<>>
       /\ sess[s].fetchCalls = 0 /\ runner[s].calls = 0

\* A search whose response had no objectIDs field has ended.
C9_Witness ==
  \E s \in Sessions :
    /\ Current(s)
    /\ sess[s].fetch = Fulfilled([total |-> 0])
    /\ sess[s].pc = "resultsReady"
    /\ sess[s].ids = <<>>

AbortedAt(objectResults) ==
  {i \in DOMAIN objectResults :
     objectResults[i] = [ok |-> FALSE, error |-> AbortError]}

\* C10: no session counts a fetch that ended by its cancellation signal: a session
\* that reaches the failure count has no aborted fetch among its outcomes, so no
\* all-failed error is set on account of aborted calls.
C10_AbortNotCounted ==
  \A s \in Sessions :
    /\ Counted(s) => AbortedAt(sess[s].objectResults) = {}
    /\ (sess[s].pc = "awaitPreload" /\ aborted[s]) => searchIdRef # s
    /\ (sess[s].pc = "allFailed" /\ runner[s].kind = "fetch") =>
          \A i \in DOMAIN runner[s].task :
             runner[s].task[i].promise # Rejected(AbortError)

\* The batch of a superseded session has resolved with every fetch aborted, and
\* no error is shown.
C10_Witness ==
  \E s \in Sessions :
    /\ RunResolved(s) /\ runner[s].kind = "fetch"
    /\ Len(runner[s].results) = 3
    /\ AbortedAt(runner[s].results) = {1, 2, 3}
    /\ error = ""

(* ------------------ claims about cancellation and the cache ------------ *)
\* C11: once the cancellation signal of a session has fired, its task runner
\* invokes the worker for no item that was not launched before: no step takes an
\* item the index had not reached to an invoked worker.
C11_NoLaunchAfterAbort ==
  [][\A s \in Sessions :
       \A i \in DOMAIN runner[s].task :
         (/\ aborted[s]
          /\ runner[s].task[i].phase = "unlaunched"
          /\ i \in DOMAIN runner'[s].task) =>
            runner'[s].task[i].phase \notin {"worker", "settled"}]_vars

\* C12: the cache is append-only and stable.  Under every interleaving of the
\* workers of current and superseded sessions and of detail fetches, an identifier
\* in the cache maps to the catalog's record of it, a key once present is never
\* removed, and its content never changes after it was first stored.
C12_CacheAppendOnly ==
  /\ [](\A id \in DOMAIN cacheRef : cacheRef[id] \in {NoItem, Catalog(id)})
  /\ [][\A id \in DOMAIN cacheRef :
          cacheRef[id] # NoItem => cacheRef'[id] = cacheRef[id]]_vars

\* A detail fetch started on a cache miss is still in flight, for a summary that
\* differs from the record, and a session worker has stored the identifier since:
\* the detail fetch will store it a second time.
C12_Witness ==
  \E k \in DOMAIN detailFetch, s \in Sessions :
    LET id == detailFetch[k].objectID
    IN /\ cacheRef[id] = Catalog(id)
       /\ detailFetch[k] # Catalog(id)
       /\ runner[s].kind = "fetch"
       /\ \E i \in DOMAIN runner[s].items :
            /\ runner[s].items[i] = id
            /\ runner[s].task[i].promise = Fulfilled(Catalog(id))
       /\ runner[s].calls = Len(runner[s].items)

\* The items of a run whose worker is invoked in this step.
Invoked(r) ==
  {i \in DOMAIN runner'[r].task :
     /\ i \in DOMAIN runner[r].task => runner[r].task[i].phase \in {"unlaunched", "timer"}
     /\ runner'[r].task[i].phase \in {"worker", "settled"}}

\* C13: cache idempotence.  A session worker invoked for an identifier that a
\* fetch (of the same or an earlier session) has stored returns the stored record
\* at once, equal to the one fetched, and issues no network request: the requests
\* of a run grow only by its invocations for identifiers not in the cache.
C13_CacheIdempotence ==
  [][\A s \in Sessions :
       (runner[s].kind \in {"none", "fetch"} /\ runner'[s].kind = "fetch") =>
         /\ \A i \in Invoked(s) :
              LET id == runner'[s].items[i]
              IN cacheRef[id] # NoItem =>
                   /\ runner'[s].task[i].phase = "settled"
                   /\ runner'[s].task[i].promise = Fulfilled(cacheRef[id])
                   /\ cacheRef[id] = Catalog(id)
         /\ runner'[s].calls = runner[s].calls
              + Cardinality({i \in Invoked(s) : cacheRef[runner'[s].items[i]] = NoItem})]_vars

\* The fetch batch of a later session has finished with an outcome for each of its
\* identifiers and without any request: every one was served from the cache, which
\* an earlier session filled.
C13_Witness ==
  \E s \in Sessions :
    /\ s > 1
    /\ runner[s].kind = "fetch"
    /\ Len(runner[s].items) >= 2
    /\ runner[s].resolved = 1
    /\ runner[s].calls = 0
    /\ \A i \in DOMAIN runner[s].items :
         runner[s].results[i] = [ok |-> TRUE, value |-> Catalog(runner[s].items[i])]

(* ------------------- claims about detail selection --------------------- *)
\* C14: selectItem(item) for an identifier present in the cache issues no network
\* call: within the call selected becomes item, the resolved details become the
\* cached item and detailsLoading is false, and nothing else changes.
C14_SelectCachedItem ==
  [][\A item \in SelectableItems(DetailIds) :
       (selectItem(item) /\ cacheRef[item.objectID] # NoItem) =>
          /\ detailFetch' = detailFetch
          /\ selected' = item
          /\ selectedDetails' = cacheRef[item.objectID]
          /\ selectedDetails' = Catalog(item.objectID)
          /\ detailsLoading' = FALSE
          /\ UNCHANGED <<cacheRef, runner, sess>>]_vars

\* An item was selected from the cache while the detail fetch of another
\* identifier is in flight: no fetch was added for it.
C14_Witness ==
  /\ Len(detailFetch) = 1
  /\ selected # NoItem
  /\ selected.objectID # detailFetch[1].objectID
  /\ cacheRef[selected.objectID] # NoItem
  /\ selectedDetails = cacheRef[selected.objectID]
  /\ ~detailsLoading

\* C15: when a detail fetch started by selectItem(item) on a cache miss fails, the
\* resolved details become that item, detailsLoading becomes false, and the error
\* message, the results, isSearching and the cache are left unchanged.
C15_DetailFailureFallsBack ==
  [][\A k \in DOMAIN detailFetch :
       DetailFails(k) =>
          /\ selectedDetails' = detailFetch[k]
          /\ detailsLoading' = FALSE
          /\ UNCHANGED <<error, results, isSearching, cacheRef, selected>>]_vars

\* The resolved details are a summary that differs from the catalog's record, so
\* they come from a failed detail fetch; an error of the search is still shown.
C15_Witness ==
  /\ selectedDetails # NoItem
  /\ selectedDetails # Catalog(selectedDetails.objectID)
  /\ selected = selectedDetails
  /\ cacheRef[selected.objectID] = NoItem
  /\ ~detailsLoading
  /\ detailFetch = <<>>
  /\ error = AllFailedMessage

(* ------------------- claims about the published list ------------------- *)
\* The place of an identifier in a list of distinct identifiers.
Pos(ids, id) == CHOOSE i \in DOMAIN ids : ids[i] = id

\* C16: the published results preserve the order of the search response, whatever
\* order the fetches complete in: outcome i is the outcome of identifier i, the
\* results are the records of exactly the identifiers whose fetch succeeded with a
\* viewable record, and they stand in the order of these identifiers in the
\* response.
C16_ResultsInInputOrder ==
  \A s \in Sessions :
    (Current(s) /\ sess[s].pc = "resultsReady") =>
      LET ids == sess[s].ids
          res == sess[s].objectResults
      IN /\ Len(res) = Len(ids)
         /\ \A i \in DOMAIN ids : res[i].ok => res[i].value = Catalog(ids[i])
         /\ {results[k] : k \in DOMAIN results} =
               {Catalog(ids[i]) : i \in ViewableAt(res)}
         /\ \A k1, k2 \in DOMAIN results :
               k1 < k2 => Pos(ids, results[k1].objectID) < Pos(ids, results[k2].objectID)

\* The fetch of identifier 1 of <<1, 2, 3>> ended last, after those of 2 and 3, and
\* no fetch failed: the results are the records of 1 and 2, in this order.
C16_Witness ==
  \E s \in Sessions :
    /\ Current(s) /\ sess[s].pc = "resultsReady"
    /\ sess[s].ids = <<1, 2, 3>>
    /\ FailedAt(sess[s].objectResults) = {}
    /\ sess[s].fetchCalls = 3
    /\ results = <<Catalog(1), Catalog(2)>>

(* --------------------- more claims about the task runner --------------- *)
\* C17: the promise of a run resolves only when every one of its N items has a
\* recorded outcome and the count of active workers is zero: it is never resolved
\* while an item is unlaunched, waits for its delay or is in its worker, and the
\* count of active workers is never negative.
C17_ResolvesOnlyWhenDone ==
  \A r \in Runs :
    LET rn == runner[r]
    IN /\ rn.active >= 0
       /\ rn.index <= Len(rn.items)
       /\ rn.resolved > 0 =>
            /\ rn.active = 0
            /\ rn.index = Len(rn.items)
            /\ \A i \in DOMAIN rn.items :
                 /\ ~IsHole(rn.results[i])
                 /\ rn.task[i].phase \notin {"unlaunched", "timer", "worker"}
       /\ (\E i \in DOMAIN rn.items : IsHole(rn.results[i])) => rn.resolved = 0

\* A run of three items under a limit of one, so that items waited unlaunched while
\* a worker ran, has resolved: every item has its outcome and no worker is active.
C17_Witness ==
  LET rn == runner[Standalone]
  IN /\ rn.kind = "task" /\ Len(rn.items) = 3 /\ rn.limit = 1
     /\ rn.resolved = 1 /\ rn.active = 0 /\ rn.index = 3
     /\ \A i \in 1..3 : ~IsHole(rn.results[i])
     /\ rn.results[2].ok /\ ~rn.results[3].ok

(* ----------------------- claims about the preload ---------------------- *)
\* C18: the image preload never fails the batch.  The promise of a preload task
\* is never rejected, whether the image loads, fails to load or the item has no
\* url, so every outcome of a preload run is a success; while a session awaits its
\* preload no error is set, and the session publishes exactly the viewable items
\* it had before the preload.
C18_PreloadNeverFails ==
  /\ preloadImage("") = Fulfilled("void")
  /\ \A r \in Runs :
       runner[r].kind = "preload" =>
         /\ \A i \in DOMAIN runner[r].task :
              runner[r].task[i].promise.status # "rejected"
         /\ \A i \in DOMAIN runner[r].results :
              ~IsHole(runner[r].results[i]) => runner[r].results[i].ok
  /\ \A s \in Sessions :
       /\ (Current(s) /\ sess[s].pc = "awaitPreload") => error = "" /\ results = <<>>
       /\ (Current(s) /\ sess[s].pc = "resultsReady") =>
            /\ error = ""
            /\ results = sess[s].withImages
            /\ results = WithImages(Objects(sess[s].objectResults))

\* The preload of the items 1 and 2 has resolved although the image of item 1
\* failed to load, and both items are published without an error.
C18_Witness ==
  \E s \in Sessions :
    /\ Current(s) /\ sess[s].pc = "resultsReady"
    /\ runner[s].kind = "preload" /\ runner[s].resolved = 1
    /\ runner[s].items = <<Catalog(1), Catalog(2)>>
    /\ \A i \in 1..2 : runner[s].results[i] = [ok |-> TRUE, value |-> "void"]
    /\ results = <<Catalog(1), Catalog(2)>>
    /\ error = "" /\ ~isSearching

(* ---------------------- more claims about the sessions ----------------- *)
\* C19: when the search request of the session holding the current token fails or
\* is answered with a status that is not ok, the session ends, in the same turn of
\* the event loop, with a non-empty error message (the message of the error),
\* no results and isSearching false, and it runs no per-object fetch.
C19_SearchFailureReported ==
  \A s \in Sessions :
    (/\ Current(s)
     /\ sess[s].fetch.status = "rejected"
     /\ ~IsAbortError(sess[s].fetch.reason)
     /\ ~MicrotaskPending) =>
       /\ sess[s].pc = "failed"
       /\ error # "" /\ error = sess[s].fetch.reason.message
       /\ results = <<>> /\ ~isSearching
       /\ runner[s].kind = "none" /\ sess[s].fetchCalls = 0
       /\ sess[s].ids = <<>> /\ sess[s].objectResults = <<>>

\* The search endpoint answered the second search with a status that is not ok,
\* and the session has ended with the error of the request.
C19_Witness ==
  \E s \in Sessions :
    /\ s > 1 /\ Current(s)
    /\ sess[s].fetch = Rejected(SearchRequestFailed)
    /\ sess[s].pc = "failed"
    /\ error = "Search request failed"
    /\ ~isSearching

\* A term that is empty or made of spaces only.
IsBlank(term) == \A i \in DOMAIN term : term[i] = " "

\* The sessions with a request to the catalog (search or object) in flight.
InFlight(ss, rr) ==
  {s \in Sessions :
     \/ ss[s].fetch.status = "pending"
     \/ \E i \in DOMAIN rr[s].task : rr[s].task[i].phase = "worker" /\ rr[s].kind = "fetch"}

\* C20: search(term) with an empty or whitespace-only term is reset(): it starts no
\* session and issues no network call, takes the next token, fires the signal of
\* the controller in place (so that no request to the catalog stays in flight), and
\* leaves isSearching false and results, error and submitted query empty.
C20_BlankSearchIsReset ==
  [][\A term \in Terms :
       (IsBlank(term) /\ Search(term)) =>
          /\ reset
          /\ searchIdRef' = searchIdRef + 1
          /\ sess'[searchIdRef'] = NoSession
          /\ runner'[searchIdRef'] = NoRun
          /\ InFlight(sess', runner') = {}
          /\ abortRef' = abortRef
          /\ abortRef # 0 => aborted'[abortRef]
          /\ ~isSearching' /\ results' = <<>> /\ error' = "" /\ submittedQuery' = <<>>
          /\ selected' = NoItem /\ selectedDetails' = NoItem]_vars

\* A blank search was made while the fetch batch of the first session ran: the
\* token has no session, the signal of the first session has fired, its batch has
\* since resolved with an aborted fetch, and nothing is shown.
C20_Witness ==
  /\ searchIdRef = 2
  /\ sess[2] = NoSession
  /\ aborted[1]
  /\ sess[1].pc = "awaitFetch"
  /\ runner[1].resolved = 1
  /\ AbortedAt(runner[1].results) # {}
  /\ ~isSearching /\ results = <<>> /\ error = "" /\ submittedQuery = <<>>

(* --------------------- claims about the start of a search -------------- *)
\* t is term without its leading and trailing spaces.
IsTrimOf(t, term) ==
  /\ t # <<>> => t[1] # " " /\ t[Len(t)] # " "
  /\ \E a, b \in 0..Len(term) :
       /\ a + Len(t) + b = Len(term)
       /\ SubSeq(term, a + 1, a + Len(t)) = t
       /\ \A i \in 1..a : term[i] = " "
       /\ \A i \in (Len(term) - b + 1)..Len(term) : term[i] = " "

\* C21: search(term) with a non-blank term, within the call and before any network
\* call returns, takes the next token, fires the signal of the controller of the
\* previous session and installs a fresh controller whose signal has not fired,
\* clears results, error, selected item and resolved details, sets isSearching and
\* sets the submitted query to the trimmed term; its search request is pending.
C21_SearchStartEffects ==
  [][\A term \in Terms :
       (~IsBlank(term) /\ Search(term)) =>
          /\ searchIdRef' = searchIdRef + 1
          /\ abortRef # 0 => aborted'[abortRef]
          /\ abortRef' = searchIdRef' /\ abortRef' # abortRef
          /\ ~aborted'[abortRef']
          /\ results' = <<>> /\ error' = ""
          /\ selected' = NoItem /\ selectedDetails' = NoItem
          /\ isSearching' = TRUE
          /\ submittedQuery' # <<>> /\ IsTrimOf(submittedQuery', term)
          /\ sess'[searchIdRef'].pc = "awaitSearch"
          /\ sess'[searchIdRef'].fetch = Pending
          /\ InFlight(sess', runner') \subseteq {searchIdRef'}
          /\ UNCHANGED <<cacheRef, detailsLoading, detailFetch>>]_vars

\* A second search was started while the batch of the first ran and the detail
\* fetch of a selected item was in flight: the request of the second is pending,
\* the signal of the first has fired, and nothing is selected or shown.
C21_Witness ==
  /\ searchIdRef = 2 /\ abortRef = 2
  /\ sess[2].pc = "awaitSearch" /\ sess[2].fetch = Pending
  /\ aborted[1] /\ ~aborted[2]
  /\ sess[1].pc = "awaitFetch"
  /\ detailFetch # <<>> /\ detailsLoading
  /\ selected = NoItem /\ selectedDetails = NoItem
  /\ isSearching /\ results = <<>> /\ error = ""
  /\ submittedQuery = <<"c", "a", "t">>

(* ----------------------- claims about the page size -------------------- *)
\* C22: a session takes at most PAGE_SIZE identifiers from the search response,
\* the first ones and in their order: its fetch batch has at most PAGE_SIZE items,
\* so at most PAGE_SIZE per-object workers are invoked and at most PAGE_SIZE
\* requests made, and the published results never hold more than PAGE_SIZE items.
C22_AtMostPageSize ==
  /\ Len(results) <= PAGE_SIZE
  /\ \A s \in Sessions :
       /\ Len(sess[s].ids) <= PAGE_SIZE
       /\ Len(sess[s].objectResults) <= PAGE_SIZE
       /\ sess[s].fetchCalls <= PAGE_SIZE
       /\ runner[s].kind # "none" =>
            /\ Len(runner[s].items) <= PAGE_SIZE
            /\ runner[s].index <= PAGE_SIZE
            /\ runner[s].calls <= PAGE_SIZE
            /\ Cardinality({i \in DOMAIN runner[s].task :
                              runner[s].task[i].phase # "unlaunched"}) <= PAGE_SIZE
       /\ (sess[s].pc \in {"awaitFetch", "awaitPreload", "resultsReady", "allFailed"}
             /\ sess[s].fetch.status = "fulfilled") =>
            LET all == ObjectIDs(sess[s].fetch.value)
            IN /\ Len(sess[s].ids) = (IF Len(all) < PAGE_SIZE THEN Len(all) ELSE PAGE_SIZE)
               /\ \A i \in DOMAIN sess[s].ids : sess[s].ids[i] = all[i]

\* The search endpoint answered with one identifier more than a page holds: the
\* session fetched the first PAGE_SIZE of them, each with one request, never the
\* last one, and has published the viewable ones.
C22_Witness ==
  \E s \in Sessions :
    /\ Current(s) /\ sess[s].pc = "resultsReady"
    /\ Len(ObjectIDs(sess[s].fetch.value)) = PAGE_SIZE + 1
    /\ Len(sess[s].ids) = PAGE_SIZE
    /\ sess[s].fetchCalls = PAGE_SIZE
    /\ cacheRef[PAGE_SIZE] # NoItem
    /\ cacheRef[PAGE_SIZE + 1] = NoItem
    /\ results = sess[s].withImages
    /\ Len(results) > MAX_CONCURRENT

(* ------------------ more claims about the published list --------------- *)
\* C23: every published item is viewable: in every reachable state each item of
\* results has a non-empty primaryImageSmall or a non-empty primaryImage.
C23_ResultsViewable ==
  \A k \in DOMAIN results :
    results[k].primaryImageSmall # "" \/ results[k].primaryImage # ""

\* A session has published results although one of its fetches returned a record
\* with neither image: that record is not among the results.
C23_Witness ==
  \E s \in Sessions :
    /\ Current(s) /\ sess[s].pc = "resultsReady"
    /\ results # <<>>
    /\ \E i \in DOMAIN sess[s].objectResults :
         LET r == sess[s].objectResults[i]
         IN /\ r.ok
            /\ r.value.primaryImageSmall = "" /\ r.value.primaryImage = ""
            /\ \A k \in DOMAIN results : results[k] # r.value

(* ------------------ claims about the save-image handler ---------------- *)
\* C24: when the user cancels the save dialog, or confirms without a path, the
\* handler returns {canceled: true} and nothing else, no download was started and
\* the file is left as it was; a download is started only in the step in which
\* the user confirmed a save location, and a file is written only after that.
C24_CancelStartsNoDownload ==
  /\ [](/\ save.dl # "none" => save.filePath # ""
        /\ save.written => save.filePath # ""
        /\ save.response = Canceled =>
             /\ save.pc = "returned"
             /\ save.dl = "none" /\ save.chunks = <<>> /\ ~save.written)
  /\ [][/\ \A result \in DialogResults :
             (DialogCloses(result) /\ (result.canceled \/ result.filePath = "")) =>
                /\ save'.pc = "returned"
                /\ save'.response = [canceled |-> TRUE]
                /\ save'.dl = "none"
                /\ save'.file = save.file
        /\ (save.dl = "none" /\ save'.dl # "none") =>
             \E result \in DialogResults :
                /\ DialogCloses(result)
                /\ ~result.canceled /\ result.filePath # ""
                /\ save'.filePath = result.filePath]_vars

\* The first invocation saved the image; in the second the user closed the
\* dialog: the handler returned canceled and the file is as the first left it.
C24_Witness ==
  /\ save.calls = 2
  /\ save.pc = "returned"
  /\ save.response = [canceled |-> TRUE]
  /\ save.dl = "none" /\ ~save.written
  /\ save.file = Body

\* C25: after the user confirmed a path, whenever the download has failed (no
\* response, a status of 400 or more, or a connection lost before the end of the
\* response) or the write has failed, the handler has returned
\* {canceled: false, error} with a message and without a filePath; and it returns
\* {canceled: false, filePath} only with the whole download written to the chosen
\* path.
C25_SaveFailureReported ==
  /\ save.dl \in {"failed", "aborted"} =>
       /\ save.pc = "returned"
       /\ save.response.canceled = FALSE
       /\ "error" \in DOMAIN save.response /\ save.response.error # ""
       /\ "filePath" \notin DOMAIN save.response
  /\ (save.pc = "returned" /\ save.dl = "ended" /\ save.file # Body) =>
       /\ "error" \in DOMAIN save.response /\ save.response.error # ""
       /\ "filePath" \notin DOMAIN save.response
  /\ (save.pc = "returned" /\ "filePath" \in DOMAIN save.response) =>
       /\ save.response = [canceled |-> FALSE, filePath |-> save.filePath]
       /\ save.filePath = ChosenPath
       /\ save.dl = "ended" /\ save.written /\ save.file = Body

(* ------------------ claims about buildDefaultFilename ------------------ *)
\* The characters of a title in lower case, given character by character.
LowerOf(c) == IF c = "W" THEN "w" ELSE c
KeptChars == {"w", "a", "4"}

\* The maximal runs of kept characters of a string, in order.
RECURSIVE Words(_, _)
Words(q, word) ==
  IF q = <<>> THEN (IF word = <<>> THEN <<>> ELSE <<word>>)
  ELSE IF LowerOf(Head(q)) \in KeptChars
  THEN Words(Tail(q), Append(word, LowerOf(Head(q))))
  ELSE (IF word = <<>> THEN <<>> ELSE <<word>>) \o Words(Tail(q), <<>>)

\* The words joined by single hyphens.
RECURSIVE Join(_)
Join(words) ==
  IF words = <<>> THEN <<>>
  ELSE IF Len(words) = 1 THEN words[1]
  ELSE words[1] \o <<"-">> \o Join(Tail(words))

\* The number a sequence of decimal digits denotes.
RECURSIVE DecimalValue(_)
DecimalValue(q) ==
  IF q = <<>> THEN 0
  ELSE 10 * DecimalValue(SubSeq(q, 1, Len(q) - 1))
         + (CHOOSE d \in 0..9 : DigitChars[d + 1] = q[Len(q)])

\* C26: buildDefaultFilename returns the lower-cased title with each maximal run
\* of characters outside [a-z0-9] replaced by one hyphen and the hyphens at both
\* ends removed, or "met-<objectID>" when that is empty; the result is never
\* empty, never starts or ends with a hyphen and never holds two hyphens in a row;
\* "Water Lilies!!" gives "water-lilies" and "***" with identifier 42 "met-42".
C26_DefaultFilename ==
  /\ buildDefaultFilename(
       [title |-> <<"W", "a", "t", "e", "r", " ", "L", "i", "l", "i", "e", "s", "!", "!">>,
        objectID |-> 42])
       = <<"w", "a", "t", "e", "r", "-", "l", "i", "l", "i", "e", "s">>
  /\ buildDefaultFilename([title |-> <<"*", "*", "*">>, objectID |-> 42])
       = <<"m", "e", "t", "-", "4", "2">>
  /\ filename.called =>
       LET name == filename.name
           words == Words(filename.object.title, <<>>)
       IN /\ name # <<>>
          /\ name[1] # "-" /\ name[Len(name)] # "-"
          /\ \A i \in 1..(Len(name) - 1) : ~(name[i] = "-" /\ name[i + 1] = "-")
          /\ IF words # <<>> THEN name = Join(words)
             ELSE /\ SubSeq(name, 1, 4) = <<"m", "e", "t", "-">>
                  /\ Len(name) > 4
                  /\ DecimalValue(SubSeq(name, 5, Len(name))) = filename.object.objectID

\* The title "-W !" has a hyphen at its start, an upper-case letter, and a run of
\* two other characters at its end: the name is "w".
C26_Witness ==
  /\ filename.called
  /\ filename.object.title = <<"-", "W", " ", "!">>
  /\ filename.name = <<"w">>

(* --------------------- claims about stale sessions --------------------- *)
\* C27: only the session holding the current token publishes results or sets
\* isSearching to false: a step of a search() call that changes results or takes
\* isSearching from true to false is a step of the session whose token is the
\* current one, and is its last.
C27_StaleSessionNeverPublishes ==
  [][\A s \in Sessions :
       (SessionStep(s) /\ (results' # results \/ (isSearching /\ ~isSearching'))) =>
          /\ searchIdRef = s
          /\ sess'[s].pc \in Terminal
          /\ results' # results => results' = sess[s].withImages]_vars

\* The first session was superseded while its preload ran and has since returned
\* at the guard after the preload; the second still awaits its request, with
\* isSearching true and no results.
C27_Witness ==
  /\ searchIdRef = 2
  /\ sess[1].pc = "superseded"
  /\ runner[1] = NoRun
  /\ cacheRef[1] # NoItem /\ cacheRef[2] # NoItem
  /\ sess[2].pc = "awaitSearch" /\ sess[2].fetch = Pending
  /\ isSearching /\ results = <<>>

(* ------------------ more claims about detail selection ----------------- *)
\* C28: at every moment, if resolved details are present then an item is selected
\* and the resolved details carry the identifier of the selected item, under any
\* interleaving of selectItem, closeDetails, search, reset and the completions of
\* detail fetches.
C28_DetailsMatchSelection ==
  selectedDetails # NoItem =>
    /\ selected # NoItem
    /\ selectedDetails.objectID = selected.objectID

(* ------------------- claims about the phases of a session -------------- *)
\* C29: the phases of a session are strictly ordered.  The image preload of a
\* session runs only when every per-object fetch of the session has its outcome,
\* over exactly the viewable records among them; and results are published only
\* when every preload task of the session has resolved: until then a session that
\* holds the current token shows no results.
C29_PhasesInOrder ==
  \A s \in Sessions :
    /\ runner[s].kind = "preload" =>
         /\ sess[s].pc \in {"awaitPreload", "resultsReady"}
         /\ Len(sess[s].objectResults) = Len(sess[s].ids)
         /\ \A i \in DOMAIN sess[s].objectResults : ~IsHole(sess[s].objectResults[i])
         /\ sess[s].fetchCalls <= Len(sess[s].ids)
         /\ runner[s].items = sess[s].withImages
         /\ Len(runner[s].items) = Cardinality(ViewableAt(sess[s].objectResults))
    /\ sess[s].pc = "awaitFetch" => runner[s].kind = "fetch"
    /\ (Current(s) /\ sess[s].pc = "resultsReady") =>
         /\ runner[s].kind = "preload"
         /\ runner[s].resolved = 1
         /\ AllFinished(runner[s])
         /\ \A i \in DOMAIN runner[s].results :
              runner[s].results[i] = [ok |-> TRUE, value |-> "void"]
    /\ (Current(s) /\ sess[s].pc \in {"awaitSearch", "awaitFetch", "awaitPreload"}) =>
         results = <<>>

\* The fetches of <<1, 2, 3>> have all reached their outcome, the third a
\* failure; of the two preload tasks the first has resolved and the second is
\* waiting for its image, and no results are published yet.
C29_Witness ==
  \E s \in Sessions :
    /\ Current(s) /\ sess[s].pc = "awaitPreload"
    /\ sess[s].ids = <<1, 2, 3>>
    /\ FailedAt(sess[s].objectResults) = {3}
    /\ runner[s].kind = "preload"
    /\ runner[s].task[1].phase = "finished"
    /\ runner[s].task[2].phase = "worker"
    /\ results = <<>> /\ isSearching

(* ---------------------- claims about the session token ----------------- *)
\* C30: the session token never decreases; every search, blank or not, and every
\* reset takes it up by exactly one, so a session is created under a token no
\* earlier session or reset had, sessions never hold a token beyond the current
\* one, and at most one session holds the current token; selectItem, closeDetails
\* and every completion leave the token as it is.
C30_TokenMonotone ==
  /\ [](\A s \in Sessions : sess[s].pc # "idle" => s <= searchIdRef)
  /\ [][/\ searchIdRef' >= searchIdRef
        /\ \A term \in Terms : Search(term) => searchIdRef' = searchIdRef + 1
        /\ Reset => searchIdRef' = searchIdRef + 1
        /\ \A item \in SelectableItems(DetailIds) :
             selectItem(item) => searchIdRef' = searchIdRef
        /\ closeDetails => searchIdRef' = searchIdRef
        /\ searchIdRef' # searchIdRef =>
             \/ Reset
             \/ \E term \in Terms : Search(term)
        /\ \A s \in Sessions :
             (sess[s].pc = "idle" /\ sess'[s].pc # "idle") =>
                /\ s = searchIdRef' /\ s > searchIdRef
                /\ \A term \in Terms : Search(term) => ~IsBlank(term)
        /\ Cardinality({s \in Sessions : Current(s)}) <= 1]_vars

\* Token 1 went to a reset and token 2 to a search; an item was selected since,
\* with the token unchanged.
C30_Witness ==
  /\ searchIdRef = 2
  /\ sess[1].pc = "idle"
  /\ sess[2].pc = "resultsReady"
  /\ selected # NoItem /\ selectedDetails = Catalog(selected.objectID)


(* ------------------- claims about the final sitting -------------------- *)
\* C31: a detail fetch started by selectItem is independent of session
\* cancellation.  A search or a reset, which abort the session's controller, leave
\* every detail fetch in flight as it was; and a detail fetch that succeeds stores
\* the fetched record in the cache under the selected identifier, whatever the
\* token is by then, and leaves every other key of the cache alone.
C31_DetailFetchOutlivesSession ==
  [][/\ (Reset \/ \E term \in Terms : Search(term)) => detailFetch' = detailFetch
     /\ \A k \in DOMAIN detailFetch :
          DetailLoads(k) =>
            LET id == detailFetch[k].objectID
            IN /\ cacheRef'[id] = Catalog(id)
               /\ \A other \in DOMAIN cacheRef :
                    other # id => cacheRef'[other] = cacheRef[other]]_vars

\* The selection was made during the first session, of an identifier that no
\* session fetches, and the token has moved on, which cleared the selection; the
\* details are resolved all the same, so the detail fetch ended after the session
\* was superseded, and its record is cached.
C31_Witness ==
  /\ searchIdRef > 1
  /\ aborted[1]
  /\ selected = NoItem
  /\ selectedDetails.objectID \notin DetailIds
  /\ selectedDetails # NoItem
  /\ selectedDetails = Catalog(selectedDetails.objectID)
  /\ cacheRef[selectedDetails.objectID] = selectedDetails
  /\ detailFetch = <<>>


\* C35: in the batch-and-preload design an error message is never shown together
\* with results: in every reachable state, a non-empty error means an empty list.
C35_ErrorMeansNoResults == error # "" => results = <<>>

\* The current session has failed and shows its error while a superseded session
\* still awaits its preload batch, with items it would publish.
C35_Witness ==
  /\ error # ""
  /\ results = <<>>
  /\ \E s \in Sessions :
       /\ s < searchIdRef
       /\ sess[s].pc = "awaitPreload"
       /\ sess[s].withImages # <<>>
       /\ sess[searchIdRef].pc \in {"failed", "allFailed"}

\* C36: isSearching is true exactly while the session holding the current token
\* has not reached a terminal outcome, and false whenever no session holding the
\* current token is in progress.
C36_SearchingWhileCurrentRuns ==
  isSearching <=>
    /\ searchIdRef > 0
    /\ sess[searchIdRef].pc \in {"awaitSearch", "awaitFetch", "awaitPreload"}

\* A superseded session is still at work, while the session holding the token has
\* ended and isSearching is false.
C36_Witness ==
  /\ ~isSearching
  /\ searchIdRef > 1
  /\ sess[searchIdRef].pc \in Terminal
  /\ \E s \in Sessions :
       s < searchIdRef /\ sess[s].pc \in {"awaitFetch", "awaitPreload"}


\* How far an item of a run has got: not launched, waiting for its delay, its
\* worker invoked, its worker's promise settled, its reactions run.
Stage(t) ==
  CASE t.phase = "unlaunched" -> 0
    [] t.phase = "timer" -> 1
    [] t.phase = "worker" -> 2
    [] t.phase = "settled" -> 3
    [] OTHER -> 4

\* C37: in one run, for any N, any limit C >= 1, any delay D >= 0 and any order in
\* which the workers end, the worker is invoked exactly once for each item and the
\* promise of the run is resolved exactly once.  The items launched are those
\* below index; an item moves forward only, so the step that invokes its worker is
\* taken at most once, and never for an item whose worker was invoked; resolve is
\* called at most once, not before every worker was invoked and has ended, and
\* at once when the last one has.
C37_WorkerOncePerItem ==
  /\ [](\A r \in Runs :
          LET rn == runner[r]
          IN /\ rn.resolved <= 1
             /\ \A i \in DOMAIN rn.task : (Stage(rn.task[i]) > 0) <=> (i <= rn.index)
             /\ rn.resolved = 1 <=> AllFinished(rn))
  /\ [][\A r \in Runs :
          runner'[r].kind = runner[r].kind =>
            /\ runner'[r].resolved >= runner[r].resolved
            /\ \A i \in DOMAIN runner[r].task :
                 /\ Stage(runner'[r].task[i]) >= Stage(runner[r].task[i])
                 /\ Stage(runner[r].task[i]) >= 2 =>
                      /\ i \notin Invoked(r)
                      /\ runner'[r].task[i].promise.status # "pending" =>
                           Stage(runner'[r].task[i]) >= 3
                      /\ runner[r].task[i].promise.status # "pending" =>
                           runner'[r].task[i].promise = runner[r].task[i].promise]_vars

\* A run of three items with limit 2 and a delay is under way: the worker of the
\* second item ended before that of the first, and the worker of the third was
\* invoked in its place.
C37_Witness ==
  LET rn == runner[Standalone]
  IN /\ rn.kind = "task" /\ Len(rn.items) = 3 /\ rn.limit = 2 /\ rn.delayMs > 0
     /\ rn.resolved = 0
     /\ rn.task[1].phase = "worker"
     /\ rn.task[2].phase = "finished"
     /\ rn.task[3].phase = "worker"


\* C40: selectItem, closeDetails and the completion of a detail fetch leave the
\* search state as it is: the token, the results, the error, isSearching and the
\* submitted query do not change, no session's cancellation signal fires, and the
\* locals of the sessions and of their runs are not touched.
C40_SelectionLeavesSearchAlone ==
  [][(\/ \E item \in SelectableItems(DetailIds) : selectItem(item)
      \/ closeDetails
      \/ \E k \in DOMAIN detailFetch : DetailLoads(k) \/ DetailFails(k)) =>
        UNCHANGED <<searchIdRef, results, error, isSearching, submittedQuery,
                    abortRef, aborted, sess, runner>>]_vars

\* An item was selected while the current session awaits its fetch batch, its
\* detail fetch has failed, and the search is still in progress.
C40_Witness ==
  /\ isSearching
  /\ searchIdRef > 0
  /\ sess[searchIdRef].pc = "awaitFetch"
  /\ ~aborted[searchIdRef]
  /\ selected # NoItem
  /\ selectedDetails = selected
  /\ cacheRef[selected.objectID] = NoItem
  /\ ~detailsLoading
  /\ detailFetch = <<>>


\* C38: when every network call and image load ends, by success or failure, and
\* every timer fires, every run of the task runner eventually resolves, and
\* whenever isSearching is true it eventually becomes false.
C38_EverySearchEnds ==
  /\ \A s \in Sessions : (runner[s].kind # "none") ~> (runner[s].resolved > 0)
  /\ isSearching ~> ~isSearching

\* The second search has ended with its results after both of its runs resolved,
\* and the first, superseded, has returned at a token guard as well.
C38_Witness ==
  /\ searchIdRef = 2
  /\ ~isSearching
  /\ sess[1].pc = "superseded" /\ aborted[1]
  /\ sess[2].pc = "resultsReady"
  /\ runner[2].kind = "preload" /\ runner[2].resolved = 1
  /\ results # <<>>


(* --------- claims about the revision that fetches tiles on sight -------- *)
\* The places an identifier is waiting at or being fetched from on behalf of the
\* session holding the token: positions of the queue, and timers and fetches of
\* identifiers that session enqueued.
QueuedAt(id) == {i \in DOMAIN viewport.queueRef : viewport.queueRef[i] = id}
InFlightAt(id) ==
  {k \in DOMAIN viewport.tasks :
     /\ viewport.tasks[k].id = id
     /\ viewport.tasks[k].session = viewport.searchIdRef}

C34_CurrentIdsNotDiscarded ==
  [][ViewportTimerFires =>
       LET t == viewport.tasks[NextTimer(viewport)]
       IN t.session = viewport.searchIdRef => t.searchId = viewport.searchIdRef]_vars


(* ------ claims about the revision that shows items as they resolve ----- *)
\* C32: an item that the runner of a superseded session delivers to the sink is
\* never added to the displayed list: the reactions of a handler of a session
\* that does not hold the token leave the list as it is, so that after a newer
\* search or a clear the list holds only items the current session resolved.
C32_StaleDeliveryNotShown ==
  [][\A s \in Tokens :
       (PageTaskSettled(s) /\ s # incremental.searchIdRef) =>
          incremental'.items = incremental.items]_vars

\* The identifiers of a sequence of items.
IdsOf(its) == [k \in DOMAIN its |-> its[k].objectID]

\* C39: the items reach the sink in the order in which the handlers returned, not
\* in the order of the input; each result that is not null is delivered exactly
\* once; and the displayed list never holds two items of one identifier.
C39_SinkInCompletionOrder ==
  /\ \A s \in Tokens :
       LET pg == incremental.page[s]
           delivered == IdsOf(pg.results)
       IN /\ Len(delivered) <= Len(pg.done)
          /\ delivered = SubSeq(pg.done, 1, Len(delivered))
          /\ \A i \in DOMAIN pg.task :
               Cardinality({k \in DOMAIN delivered : delivered[k] = pg.items[i]})
                 = IF pg.task[i].phase = "finished" /\ pg.task[i].value # NoItem
                   THEN 1 ELSE 0
  /\ \A j, k \in DOMAIN incremental.items :
       incremental.items[j].objectID = incremental.items[k].objectID => j = k

\* The second identifier of the current session was delivered before the first,
\* while the call of a superseded session, which has delivered items too, is
\* still under way; the list holds one item of each identifier.
C39_Witness ==
  LET s == incremental.searchIdRef
  IN /\ s > 1
     /\ s \in Tokens
     /\ Len(incremental.page[s].results) = 2
     /\ IdsOf(incremental.page[s].results) = <<2, 1>>
     /\ \E r \in Tokens :
          /\ r < s
          /\ incremental.page[r].results # <<>>
     /\ Len(incremental.items) = 2

====
